---- MODULE Spec2Model ----
(***************************************************************************)
(* A state-machine model of the retry / lock-wait / batching code of       *)
(* archinstall: Pacman (lib/pacman/__init__.py), _fetch_arch_db and        *)
(* run_as_a_module (archinstall/__init__.py) and                           *)
(* ZFSManager.install_zfs_packages (lib/zfs.py).                           *)
(*                                                                         *)
(* The program is sequential.  pc is the position of the one thread of     *)
(* control, stack holds the positions to return to (one per active call),  *)
(* and ret is the result handed over by the call that ended last: a normal *)
(* return or a raised exception.  Every external command is an input: it   *)
(* succeeds or fails with one of a few error texts.                        *)
(***************************************************************************)
EXTENDS Integers, Sequences, FiniteSets, TLC

VARIABLES
    pc,            \* position of the thread of control
    stack,         \* return positions of the active calls, innermost first
    ret,           \* what the last ended call handed to its caller
    exit_code,     \* process exit status, -1 while the process runs
    topCall,       \* what the script called last: "fetch", "sync", "strap", "zfs"
    faults,        \* failures of external commands the environment may still inject
    synced,        \* Pacman.synced
    silent,        \* Pacman.silent
    max_retries,   \* Pacman.max_retries
    retry_delay,   \* Pacman.retry_delay (seconds)
    batch_size,    \* Pacman.batch_size
    lockSpec,      \* poll interval and timeout of the lock wait (milliseconds)
    lockElapsed,   \* time.time() - started, on a clock only sleep advances
    lockPolls,     \* number of pacman_db_lock.exists() calls of this wait
    lastPoll,      \* result of the latest pacman_db_lock.exists()
    lockWarned,    \* the warning of line 38 was given in this call of run
    lockTimedOut,  \* the lock wait of Pacman.run ran out
    runAttempt,    \* Pacman.run: attempt
    runDelay,      \* Pacman.run: retry_delay (local, seconds)
    runErr,        \* Pacman.run: e, the exception of the failed attempt
    runLog,        \* events of the current call of Pacman.run
    askFunc,       \* Pacman.ask: func, "run" or "pacstrap"
    askErr,        \* Pacman.ask: err
    askLog,        \* events of the current call of Pacman.ask
    askAnswer,     \* Pacman.ask: what input() returned, while it is tested
    batchPkgs,     \* Pacman._install_package_batch: packages
    batchAttempt,  \* Pacman._install_package_batch: attempt
    batchLog,      \* events of the current call of _install_package_batch
    plugins,       \* the plugin registry, in registration order
    strapInput,    \* Pacman.strap: packages as passed by the caller (a list)
    hookCalls,     \* the on_pacstrap calls of this strap: plugin name and argument
    strapPkgs,     \* Pacman.strap: packages (after the plugins)
    strapI,        \* Pacman.strap: i
    batches,       \* the batches strap has passed to _install_package_batch
    pacstraps,     \* the pacstrap commands run since strap was entered
    zfsPkg,        \* install_zfs_packages: index of pkg in packages
    zfsAttempt,    \* install_zfs_packages: attempt
    zfsDelay,      \* install_zfs_packages: retry_delay (local, seconds)
    zfsLog,        \* events of the current call of install_zfs_packages
    storage,       \* lib.storage.storage: the zfs keys that are set, and their values
    zfsCfg,        \* the attributes of the ZFSManager instance
    setupStep,     \* setup_zfs_system: number of steps that have returned True
    setupCmd,      \* commands the current step has run
    setupLog,      \* events of the current call of setup_zfs_system
    minimal,       \* ZFSMenu.minimal
    is_guided,     \* ZFSMenu.is_guided
    devices,       \* device_handler._devices: what the disks hold
    bootStrategy,  \* storage['zfs_boot_strategy'], "unset" while the key is absent
    bootSelected,  \* storage.get('zfs_boot_strategy_selected', False)
    deviceMods,    \* storage['device_modifications'], "unset" while the key is absent
    menuPassword,  \* ZFSMenu.show: password, between the entry and its confirmation
    shown,         \* the menus the current call of _prompt_boot_strategy has shown
    dialog         \* the result of the menu that has just run and is being tested

ctlVars  == <<pc, stack, ret, exit_code, topCall, faults>>
pacVars  == <<synced, silent, max_retries, retry_delay, batch_size, plugins>>
lockVars == <<lockSpec, lockElapsed, lockPolls, lastPoll, lockWarned, lockTimedOut>>
runVars  == <<runAttempt, runDelay, runErr, runLog>>
askVars  == <<askFunc, askErr, askLog, askAnswer>>
batchVars == <<batchPkgs, batchAttempt, batchLog>>
strapVars == <<strapInput, hookCalls, strapPkgs, strapI, batches, pacstraps>>
zfsVars  == <<zfsPkg, zfsAttempt, zfsDelay, zfsLog>>
cfgVars  == <<storage, zfsCfg>>
setupVars == <<setupStep, setupCmd, setupLog>>
menuVars  == <<minimal, is_guided, devices, bootStrategy, bootSelected, deviceMods,
               menuPassword, shown, dialog>>
vars == <<ctlVars, pacVars, lockVars, runVars, askVars, batchVars, strapVars, zfsVars, cfgVars,
          setupVars,
         menuVars>>

(***************************************************************************)
(* Bounds of the model.                                                    *)
(***************************************************************************)
MaxFaults == 4
MaxStrapFaults == 2
MaxPkgs == 12
MaxRetries == 3
MaxBatchSize == 5
MaxPlugins == 2
MaxHookFaults == 1
MaxSetupFaults == 2
MaxFirstStrapFaults == 3

Min(a, b) == IF a < b THEN a ELSE b

RECURSIVE Pow(_, _)
Pow(b, n) == IF n = 0 THEN 1 ELSE b * Pow(b, n - 1)

(***************************************************************************)
(* Exceptions.  SystemExit (raised by exit()) derives from BaseException   *)
(* only, so an `except Exception` clause does not catch it.                *)
(***************************************************************************)
NoExc == [cls |-> "none", bail |-> "", text |-> "", code |-> 0]
SysCallError(text) == [cls |-> "SysCallError", bail |-> "", text |-> text, code |-> 0]
RequirementErrorWithoutCause(bail, err) ==
    [cls |-> "RequirementError", bail |-> bail, text |-> "", code |-> 0]

\* pacman/__init__.py line 80: RequirementError(f'{bail_message}: {err}')
RequirementError(bail, err) ==
    [cls |-> "RequirementError", bail |-> bail, text |-> err.text, code |-> 0]
OSError == [cls |-> "OSError", bail |-> "", text |-> "io", code |-> 0]
SystemExit(code) == [cls |-> "SystemExit", bail |-> "", text |-> "", code |-> code]

ExceptException(exc) == exc.cls # "SystemExit"

NoRet == [kind |-> "none", exc |-> NoExc, val |-> TRUE]
Ok(v) == [kind |-> "ok", exc |-> NoExc, val |-> v]
Raise(exc) == [kind |-> "raise", exc |-> exc, val |-> FALSE]

Caught(r) == r.kind = "raise" /\ ExceptException(r.exc)
Escapes(r) == r.kind = "raise" /\ ~ExceptException(r.exc)

(***************************************************************************)
(* Error texts of the external commands, as word sequences, and the test   *)
(* `needle in str(e).lower()`.                                             *)
(***************************************************************************)
ErrorText(kind) ==
    CASE kind = "E_SYNC" -> <<"error:", "failed", "to", "synchronize", "all", "databases">>
      [] kind = "E_RETR" -> <<"error:", "Failed", "retrieving", "file", "core.db">>
      [] kind = "E_TARGET" -> <<"error:", "target", "not", "found">>
      [] kind = "E_KEYRING" -> <<"error:", "Failed", "to", "Synchronize", "keyring">>
      [] OTHER -> <<"error:", kind>>

LowerWord(w) ==
    CASE w = "Failed" -> "failed"
      [] w = "Synchronize" -> "synchronize"
      [] OTHER -> w

NotLowered(text) == text

Lower(text) == [i \in DOMAIN text |-> LowerWord(text[i])]

Contains(needle, text) ==
    \E i \in 0 .. (Len(text) - Len(needle)) :
        \A j \in 1 .. Len(needle) : text[i + j] = needle[j]

RunErrors == {"E_SYNC", "E_RETR", "E_TARGET"}
PacstrapErrors == {"E_RETR", "E_TARGET"}

\* the outcomes of one external command: "ok" or one of its error texts
Outcomes(errors) == {"ok"} \cup (IF faults > 0 THEN errors ELSE {})
Spend(o) == IF o = "ok" THEN faults ELSE faults - 1

(***************************************************************************)
(* Event logs (history of the current logical call).                       *)
(***************************************************************************)
Ev(ev, who, res, d) == [ev |-> ev, who |-> who, res |-> res, d |-> d]

Select(log, ev) == SelectSeq(log, LAMBDA e : e.ev = ev)
SelectWho(log, ev, who) == SelectSeq(log, LAMBDA e : e.ev = ev /\ e.who = who)
Failed(e) == e.res # "ok"
AllFailed(s) == \A i \in DOMAIN s : Failed(s[i])

(***************************************************************************)
(* Calls and returns.                                                      *)
(***************************************************************************)
Call(target, after) ==
    /\ pc' = target
    /\ stack' = <<after>> \o stack
    /\ ret' = NoRet

Return(r) ==
    /\ pc' = Head(stack)
    /\ stack' = Tail(stack)
    /\ ret' = r

Goto(target) ==
    /\ pc' = target
    /\ UNCHANGED <<stack, ret>>

(***************************************************************************)
(* Pacman.__init__                                                         *)
(***************************************************************************)
MAX_RETRIES == 3
RETRY_DELAY == 5
BATCH_SIZE == 5

(***************************************************************************)
(* Pacman.run: the wait for the package-database lock.                     *)
(***************************************************************************)
PacmanLockWait == [poll_interval |-> 250, timeout |-> 60 * 10 * 1000]

\* lines 49-50
RUN_MAX_RETRIES == 3
RUN_RETRY_DELAY == 2

LockWaitExpiredAtLimit(elapsed) == elapsed >= lockSpec.timeout

\* line 44: time.time() - started > (60 * 10)
LockWaitExpired(elapsed) == elapsed > lockSpec.timeout

\* lines 35-40: the first exists() (a warning when the lock is there), started
RunCheck ==
    /\ pc = "run_check"
    /\ \E present \in BOOLEAN :
        /\ lastPoll' = (IF present THEN "present" ELSE "absent")
        /\ lockWarned' = present
        /\ lockPolls' = 1
    /\ lockElapsed' = 0
    /\ runAttempt' = 0
    /\ runDelay' = 0
    /\ runErr' = NoExc
    /\ runLog' = <<>>
    /\ Goto("run_while")
    /\ UNCHANGED <<exit_code, topCall, faults, pacVars, lockSpec, lockTimedOut,
                   askVars, batchVars, strapVars, zfsVars>>
    /\ UNCHANGED <<cfgVars, setupVars>>
    /\ UNCHANGED menuVars

\* line 41: while pacman_db_lock.exists(); lines 49-50 once the lock is gone
RunWhile ==
    /\ pc = "run_while"
    /\ \E present \in BOOLEAN :
        /\ lastPoll' = (IF present THEN "present" ELSE "absent")
        /\ IF present
           THEN /\ Goto("run_sleep")
                /\ lockPolls' = lockPolls + 1
                /\ UNCHANGED <<lockElapsed, runDelay>>
           ELSE /\ Goto("run_loop")
                /\ lockPolls' = 0
                /\ lockElapsed' = 0
                /\ runDelay' = RUN_RETRY_DELAY
    /\ UNCHANGED <<exit_code, topCall, faults, pacVars, lockSpec, lockWarned, lockTimedOut,
                   runAttempt, runErr, runLog, askVars, batchVars, strapVars, zfsVars>>
    /\ UNCHANGED <<cfgVars, setupVars>>
    /\ UNCHANGED menuVars

OnLockTimeoutProceed == Goto("run_loop")

\* lines 45-46: error(...), exit(1)
OnLockTimeout == Return(Raise(SystemExit(1)))

\* lines 42-46: one sleep of the wait loop, then the test of the grace period
RunSleep ==
    /\ pc = "run_sleep"
    /\ lockElapsed' = lockElapsed + lockSpec.poll_interval
    /\ IF LockWaitExpired(lockElapsed')
       THEN /\ lockTimedOut' = TRUE
            /\ OnLockTimeout
       ELSE /\ lockTimedOut' = lockTimedOut
            /\ Goto("run_while")
    /\ UNCHANGED <<exit_code, topCall, faults, pacVars, lockSpec, lockPolls, lastPoll, lockWarned,
                   runVars,
                   askVars, batchVars, strapVars, zfsVars>>
    /\ UNCHANGED <<cfgVars, setupVars>>
    /\ UNCHANGED menuVars

(***************************************************************************)
(* Pacman.run: the retry loop.                                             *)
(***************************************************************************)
RunMayRetryOffByOne(attempt) == attempt < RUN_MAX_RETRIES

\* line 56: if attempt < max_retries - 1
RunMayRetry(attempt) == attempt < RUN_MAX_RETRIES - 1

\* line 55: except Exception as e
RunCatches(exc) == ExceptException(exc)

RefreshCatchesNothing(exc) == FALSE

\* line 66: except Exception as sync_err
RefreshCatches(exc) == ExceptException(exc)

IsTransientCaseSensitive(exc) ==
    \/ Contains(<<"failed", "to", "synchronize">>, ErrorText(exc.text))
    \/ Contains(<<"failed", "retrieving", "file">>, ErrorText(exc.text))

\* line 63: the two substring tests on str(e).lower()
IsTransient(exc) ==
    \/ Contains(<<"failed", "to", "synchronize">>, Lower(ErrorText(exc.text)))
    \/ Contains(<<"failed", "retrieving", "file">>, Lower(ErrorText(exc.text)))

RunReraiseFirst(e) == SysCallError(SelectSeq(runLog, LAMBDA x : x.ev = "attempt")[1].res)

\* line 69: raise, which raises e again
RunReraise(e) == e

\* lines 52-56, 69: one pass of `for attempt in range(max_retries)`
RunTry ==
    /\ pc = "run_loop"
    /\ IF runAttempt >= RUN_MAX_RETRIES
       THEN /\ Return(Ok(TRUE))
            /\ runLog' = Append(runLog, Ev("fallthrough", "run", "ok", 0))
            /\ UNCHANGED <<faults, runErr, runDelay>>
       ELSE \E o \in Outcomes(RunErrors) :
            /\ faults' = Spend(o)
            /\ runLog' = Append(runLog, Ev("attempt", "run", o, 0))
            /\ IF o = "ok"
               THEN /\ Return(Ok(TRUE))
                    /\ UNCHANGED <<runErr, runDelay>>
               ELSE IF ~RunCatches(SysCallError(o))
               THEN /\ Return(Raise(SysCallError(o)))
                    /\ UNCHANGED <<runErr, runDelay>>
               ELSE IF RunMayRetry(runAttempt)
               THEN /\ runErr' = SysCallError(o)
                    /\ UNCHANGED runDelay
                    /\ Goto("run_backoff")
               ELSE /\ Return(Raise(RunReraise(SysCallError(o))))
                    /\ UNCHANGED <<runErr, runDelay>>
    /\ UNCHANGED <<exit_code, topCall, pacVars, lockVars, runAttempt, askVars, batchVars,
                   strapVars, zfsVars>>
    /\ UNCHANGED <<cfgVars, setupVars>>
    /\ UNCHANGED menuVars

\* lines 57-63: the backoff sleep, the doubling and the classification of e
RunBackoff ==
    /\ pc = "run_backoff"
    /\ runLog' = Append(runLog, Ev("wait", "run", "", runDelay))
    /\ runDelay' = runDelay * 2
    /\ IF IsTransient(runErr)
       THEN /\ Goto("run_refresh")
            /\ UNCHANGED runAttempt
       ELSE /\ Goto("run_loop")
            /\ runAttempt' = runAttempt + 1
    /\ UNCHANGED <<exit_code, topCall, faults, pacVars, lockVars, runErr, askVars, batchVars,
                   strapVars, zfsVars>>
    /\ UNCHANGED <<cfgVars, setupVars>>
    /\ UNCHANGED menuVars

\* lines 64-67: SysCommand('pacman -Syy'), a failure of it is only warned about
RunRefresh ==
    /\ pc = "run_refresh"
    /\ \E o \in Outcomes(RunErrors) :
        /\ faults' = Spend(o)
        /\ runLog' = Append(runLog, Ev("refresh", "run", o, 0))
        /\ IF o # "ok" /\ ~RefreshCatches(SysCallError(o))
           THEN /\ Return(Raise(SysCallError(o)))
                /\ UNCHANGED runAttempt
           ELSE /\ Goto("run_loop")
                /\ runAttempt' = runAttempt + 1
    /\ UNCHANGED <<exit_code, topCall, pacVars, lockVars, runErr, runDelay, askVars, batchVars,
                   strapVars, zfsVars>>
    /\ UNCHANGED <<cfgVars, setupVars>>
    /\ UNCHANGED menuVars

(***************************************************************************)
(* Pacman.ask                                                              *)
(***************************************************************************)
AskCatchesAll(exc) == TRUE

\* line 76: except Exception as err
AskCatches(exc) == ExceptException(exc)

\* line 78: input(...).lower().strip() in 'y'  (a substring test on 'y')
Answers == {"y", "Y", " y ", "", " ", "n", "N", "yes", "no"}
NormaliseAnswer(a) ==
    CASE a \in {"y", "Y", " y "} -> "y"
      [] a \in {"", " "} -> ""
      [] a \in {"n", "N"} -> "n"
      [] OTHER -> a
AnswerRetriesOnYes(a) == NormaliseAnswer(a) \in {"", "y", "yes"}
AnswerRetries(a) == NormaliseAnswer(a) \in {"", "y"}

\* lines 80, 86-87, 100-101: the bail message of the call
BailMessage(func) ==
    IF func = "run" THEN "Could not sync mirrors" ELSE "Package installation failed"

\* lines 72-75: func(*args, **kwargs), func being Pacman.run or SysCommand
AskTry ==
    /\ pc = "ask_try"
    /\ IF askFunc = "run"
       THEN /\ Call("run_check", "ask_ret")
            /\ UNCHANGED <<faults, askErr, askLog, pacstraps>>
       ELSE \E o \in Outcomes(PacstrapErrors) :
            /\ faults' = Spend(o)
            /\ askLog' = Append(askLog, Ev("invoke", askFunc, o, 0))
            /\ pacstraps' = pacstraps + 1
            /\ IF o = "ok"
               THEN /\ Return(Ok(TRUE))
                    /\ UNCHANGED askErr
               ELSE IF AskCatches(SysCallError(o))
               THEN /\ askErr' = SysCallError(o)
                    /\ Goto("ask_except")
               ELSE /\ Return(Raise(SysCallError(o)))
                    /\ UNCHANGED askErr
    /\ UNCHANGED <<exit_code, topCall, pacVars, lockVars, runVars, askFunc, batchVars, strapInput,
                   hookCalls, strapPkgs, strapI, batches, zfsVars>>
    /\ UNCHANGED <<cfgVars, setupVars>>
    /\ UNCHANGED askAnswer
    /\ UNCHANGED menuVars

\* lines 74-76 when func is Pacman.run: what the call of run handed back
AskRet ==
    /\ pc = "ask_ret"
    /\ askLog' = Append(askLog, Ev("invoke", askFunc,
                                   IF ret.kind = "ok" THEN "ok" ELSE ret.exc.text, 0))
    /\ IF ret.kind = "ok"
       THEN /\ Return(Ok(TRUE))
            /\ UNCHANGED askErr
       ELSE IF AskCatches(ret.exc)
       THEN /\ askErr' = ret.exc
            /\ Goto("ask_except")
       ELSE /\ Return(ret)
            /\ UNCHANGED askErr
    /\ runAttempt' = 0
    /\ runDelay' = 0
    /\ runErr' = NoExc
    /\ runLog' = <<>>
    /\ lockWarned' = FALSE
    /\ UNCHANGED <<exit_code, topCall, faults, pacVars, lockSpec, lockElapsed, lockPolls,
                   lastPoll, lockTimedOut, askFunc, batchVars, strapVars, zfsVars>>
    /\ UNCHANGED <<cfgVars, setupVars>>
    /\ UNCHANGED askAnswer
    /\ UNCHANGED menuVars

\* lines 77-78: RequirementError when silent; otherwise input(...) is called
AskExcept ==
    /\ pc = "ask_except"
    /\ IF silent
       THEN /\ Return(Raise(RequirementError(BailMessage(askFunc), askErr)))
            /\ UNCHANGED askAnswer
       ELSE /\ \E a \in Answers : askAnswer' = a
            /\ Goto("ask_answer")
    /\ UNCHANGED <<exit_code, topCall, faults, pacVars, lockVars, runVars, askFunc, askErr,
                   askLog, batchVars, strapVars, zfsVars>>
    /\ UNCHANGED <<cfgVars, setupVars>>
    /\ UNCHANGED menuVars

\* lines 78-80: the test of the answer: continue, or raise RequirementError
AskAnswer ==
    /\ pc = "ask_answer"
    /\ askLog' = Append(askLog, Ev("prompt", askFunc,
                                   IF AnswerRetries(askAnswer) THEN "retry" ELSE "bail", 0))
    /\ askAnswer' = "none"
    /\ IF AnswerRetries(askAnswer)
       THEN Goto("ask_try")
       ELSE Return(Raise(RequirementError(BailMessage(askFunc), askErr)))
    /\ UNCHANGED <<exit_code, topCall, faults, pacVars, lockVars, runVars, askFunc, askErr,
                   batchVars, strapVars, zfsVars>>
    /\ UNCHANGED <<cfgVars, setupVars>>
    /\ UNCHANGED menuVars

(***************************************************************************)
(* Pacman.sync                                                             *)
(***************************************************************************)
SyncedNever(flag) == FALSE

\* lines 83-84: if self.synced: return
AlreadySynced(flag) == flag

\* lines 83-91
SyncEnter ==
    /\ pc = "sync_enter"
    /\ askLog' = <<>>
    /\ IF AlreadySynced(synced)
       THEN /\ Return(Ok(TRUE))
            /\ UNCHANGED askFunc
       ELSE /\ askFunc' = "run"
            /\ Call("ask_try", "sync_ret")
    /\ UNCHANGED <<exit_code, topCall, faults, pacVars, lockVars, runVars, askErr, batchVars,
                   strapVars, zfsVars>>
    /\ UNCHANGED <<cfgVars, setupVars>>
    /\ UNCHANGED askAnswer
    /\ UNCHANGED menuVars

\* line 92: self.synced = True, reached only when ask returned
SyncRet ==
    /\ pc = "sync_ret"
    /\ IF ret.kind = "ok"
       THEN /\ synced' = TRUE
            /\ Return(Ok(TRUE))
       ELSE /\ UNCHANGED synced
            /\ Return(ret)
    /\ UNCHANGED <<exit_code, topCall, faults, silent, max_retries, retry_delay, batch_size,
                   plugins, lockVars, runVars, askVars, batchVars, strapVars, zfsVars>>
    /\ UNCHANGED <<cfgVars, setupVars>>
    /\ UNCHANGED menuVars

(***************************************************************************)
(* Pacman._install_package_batch                                           *)
(***************************************************************************)
BatchMayRetryOffByOne(attempt) == attempt < max_retries

\* line 108: if attempt < self.max_retries - 1
BatchMayRetry(attempt) == attempt < max_retries - 1

\* line 107: except Exception as e
BatchCatches(exc) == ExceptException(exc)

\* line 117: except Exception as sync_err
BatchSyncCatches(exc) == ExceptException(exc)

\* lines 96-105: one pass of `for attempt in range(self.max_retries)`
BatchTry ==
    /\ pc = "batch_loop"
    /\ IF batchAttempt >= max_retries
       THEN /\ Return(Ok(TRUE))
            /\ batchLog' = Append(batchLog, Ev("fallthrough", "batch", "ok", 0))
            /\ UNCHANGED askVars
       ELSE /\ batchLog' = Append(batchLog, Ev("try", "batch", "", batchAttempt))
            /\ askFunc' = "pacstrap"
            /\ askErr' = NoExc
            /\ askLog' = <<>>
            /\ UNCHANGED askAnswer
            /\ Call("ask_try", "batch_ret")
    /\ UNCHANGED <<exit_code, topCall, faults, pacVars, lockVars, runVars, batchPkgs, batchAttempt,
                   strapVars, zfsVars>>
    /\ UNCHANGED <<cfgVars, setupVars>>
    /\ UNCHANGED menuVars

\* lines 106-108, 119-120: return when ask returned, else retry or re-raise
BatchRet ==
    /\ pc = "batch_ret"
    /\ batchLog' = batchLog \o askLog
    /\ askLog' = <<>>
    /\ askErr' = NoExc
    /\ IF ret.kind = "ok"
       THEN Return(Ok(TRUE))
       ELSE IF BatchCatches(ret.exc) /\ BatchMayRetry(batchAttempt)
       THEN /\ pc' = "batch_backoff"
            /\ UNCHANGED <<stack, ret>>
       ELSE Return(ret)
    /\ UNCHANGED <<exit_code, topCall, faults, pacVars, lockVars, runVars, askFunc, batchPkgs,
                   batchAttempt, strapVars, zfsVars>>
    /\ UNCHANGED <<cfgVars, setupVars>>
    /\ UNCHANGED askAnswer
    /\ UNCHANGED menuVars

\* lines 109-116: the backoff sleep, the doubling, then self.sync()
BatchBackoff ==
    /\ pc = "batch_backoff"
    /\ batchLog' = Append(batchLog, Ev("wait", "batch", "", retry_delay))
    /\ retry_delay' = retry_delay * 2
    /\ Call("sync_enter", "batch_sync_ret")
    /\ UNCHANGED <<exit_code, topCall, faults, synced, silent, max_retries, batch_size, plugins,
                   lockVars, runVars, askVars, batchPkgs, batchAttempt, strapVars, zfsVars>>
    /\ UNCHANGED <<cfgVars, setupVars>>
    /\ UNCHANGED menuVars

\* lines 115-118: a failure of the refresh is only warned about
BatchSyncRet ==
    /\ pc = "batch_sync_ret"
    /\ batchLog' = Append(batchLog,
                          Ev("corrective", "batch",
                             IF ret.kind = "raise" THEN "failed"
                             ELSE IF askLog = <<>> THEN "noop" ELSE "ok", 0))
    /\ askLog' = <<>>
    /\ askErr' = NoExc
    /\ IF ret.kind = "raise" /\ ~BatchSyncCatches(ret.exc)
       THEN /\ Return(ret)
            /\ UNCHANGED batchAttempt
       ELSE /\ pc' = "batch_loop"
            /\ ret' = NoRet
            /\ batchAttempt' = batchAttempt + 1
            /\ UNCHANGED stack
    /\ UNCHANGED <<exit_code, topCall, faults, pacVars, lockVars, runVars, askFunc, batchPkgs,
                   strapVars, zfsVars>>
    /\ UNCHANGED <<cfgVars, setupVars>>
    /\ UNCHANGED askAnswer
    /\ UNCHANGED menuVars

(***************************************************************************)
(* The plugin registry and the on_pacstrap hooks.                          *)
(***************************************************************************)
\* archinstall.plugin: plugins[f.__name__] = f  (a dict keeps insertion order;
\* assigning to a key that exists keeps its position)
Register(reg, name, kind) ==
    IF \E i \in DOMAIN reg : reg[i].name = name
    THEN [i \in DOMAIN reg |->
             IF reg[i].name = name THEN [name |-> name, kind |-> kind] ELSE reg[i]]
    ELSE Append(reg, [name |-> name, kind |-> kind])

\* the plugins the script may register: their names, and what their on_pacstrap
\* does ("no_attr": the plugin has no on_pacstrap)
PluginNames == 1 .. MaxPlugins
HookKinds == {"none", "empty", "add", "drop_last", "raise", "no_attr"}

\* the installation script (or a profile) registers a plugin with @archinstall.plugin
RegisterPlugin ==
    /\ pc = "script"
    /\ \E name \in PluginNames, kind \in HookKinds :
          plugins' = Register(plugins, name, kind)
    /\ UNCHANGED <<ctlVars, synced, silent, max_retries, retry_delay, batch_size, lockVars,
                   runVars, askVars, batchVars, strapVars, zfsVars>>
    /\ UNCHANGED <<cfgVars, setupVars>>
    /\ UNCHANGED menuVars

HookError == [cls |-> "HookError", bail |-> "", text |-> "hook", code |-> 0]

\* what one plugin's on_pacstrap(packages) hands back
HookCall(kind, pk) ==
    CASE kind = "none" -> [raised |-> FALSE, none |-> TRUE, list |-> <<>>]
      [] kind = "empty" -> [raised |-> FALSE, none |-> FALSE, list |-> <<>>]
      [] kind = "add" -> [raised |-> FALSE, none |-> FALSE, list |-> Append(pk, 0)]
      [] kind = "drop_last" ->
            [raised |-> FALSE, none |-> FALSE, list |-> SubSeq(pk, 1, Len(pk) - 1)]
      [] OTHER -> [raised |-> TRUE, none |-> TRUE, list |-> <<>>]

HookRaisedSwallowed(r) == FALSE

\* lines 130-133: the call of on_pacstrap is in no try block
HookRaised(r) == r.raised

TruthyUnlessNone(r) == ~r.none

\* line 132: the truth value of the hook's result (None and [] are false)
Truthy(r) == ~r.none /\ r.list # <<>>

\* lines 130-133: for plugin in plugins.values()
RECURSIVE ApplyHooks(_, _, _)
ApplyHooks(reg, pk, calls) ==
    IF reg = <<>>
    THEN [packages |-> pk, calls |-> calls, raised |-> FALSE]
    ELSE LET h == Head(reg) IN
         IF h.kind = "no_attr"
         THEN ApplyHooks(Tail(reg), pk, calls)
         ELSE LET r == HookCall(h.kind, pk)
                  calls2 == Append(calls, [name |-> h.name, arg |-> pk])
              IN  IF HookRaised(r)
                  THEN [packages |-> pk, calls |-> calls2, raised |-> TRUE]
                  ELSE ApplyHooks(Tail(reg), IF Truthy(r) THEN r.list ELSE pk, calls2)

(***************************************************************************)
(* Pacman.strap                                                            *)
(***************************************************************************)
SliceOffByOne(s, from, to) == SubSeq(s, from + 1, Min(to - 1, Len(s)))

\* packages[i:i + self.batch_size], indices counted from 0
Slice(s, from, to) == SubSeq(s, from + 1, Min(to, Len(s)))

\* the values `packages` may have: a str, or a list of 0 .. MaxPkgs names
StrapInputs ==
    {[isStr |-> TRUE, list |-> <<1>>]}
        \cup {[isStr |-> FALSE, list |-> [i \in 1 .. n |-> i]] : n \in 0 .. MaxPkgs}

\* line 126: self.sync()
StrapEnter ==
    /\ pc = "strap_enter"
    /\ Call("sync_enter", "strap_sync_ret")
    /\ UNCHANGED <<exit_code, topCall, faults, pacVars, lockVars, runVars, askVars, batchVars,
                   strapVars, zfsVars>>
    /\ UNCHANGED <<cfgVars, setupVars>>
    /\ UNCHANGED menuVars

StrapSyncFailedIgnored(r) == FALSE

\* line 126: nothing in strap catches what self.sync() raises
StrapSyncFailed(r) == r.kind = "raise"

\* lines 127-135: the str case and the plugins, reached only when sync returned
StrapSyncRet ==
    /\ pc = "strap_sync_ret"
    /\ askLog' = <<>>
    /\ askErr' = NoExc
    /\ IF StrapSyncFailed(ret)
       THEN /\ Return(ret)
            /\ UNCHANGED strapVars
       ELSE \E inp \in StrapInputs :
            LET packages == IF inp.isStr THEN <<inp.list[1]>> ELSE inp.list
                folded == ApplyHooks(plugins, packages, <<>>)
            IN  /\ strapInput' = packages
                /\ hookCalls' = folded.calls
                /\ strapPkgs' = folded.packages
                /\ strapI' = 0
                /\ batches' = <<>>
                /\ pacstraps' = 0
                /\ IF folded.raised
                   THEN Return(Raise(HookError))
                   ELSE /\ pc' = "strap_loop"
                        /\ ret' = NoRet
                        /\ UNCHANGED stack
    /\ UNCHANGED <<exit_code, topCall, faults, pacVars, lockVars, runVars, askFunc, batchVars,
                   zfsVars>>
    /\ UNCHANGED <<cfgVars, setupVars>>
    /\ UNCHANGED askAnswer
    /\ UNCHANGED menuVars

\* lines 138-140: for i in range(0, len(packages), self.batch_size)
StrapLoop ==
    /\ pc = "strap_loop"
    /\ IF strapI < Len(strapPkgs)
       THEN LET batch == Slice(strapPkgs, strapI, strapI + batch_size) IN
            /\ batches' = Append(batches, batch)
            /\ batchPkgs' = batch
            /\ batchAttempt' = 0
            /\ batchLog' = <<>>
            /\ Call("batch_loop", "strap_batch_ret")
       ELSE /\ Return(Ok(TRUE))
            /\ UNCHANGED <<batches, batchVars>>
    /\ UNCHANGED <<exit_code, topCall, faults, pacVars, lockVars, runVars, askVars, strapInput,
                   hookCalls, strapPkgs, strapI, zfsVars>>
    /\ UNCHANGED <<cfgVars, setupVars>>
    /\ UNCHANGED pacstraps
    /\ UNCHANGED menuVars

StrapGoesOnAnyway(r) == TRUE

\* lines 138-140: the loop goes on when the call of the batch returned; nothing
\* in strap catches what the batch raises
StrapGoesOn(r) == r.kind = "ok"

\* line 138, next value of i; an exception of the batch leaves strap
StrapBatchRet ==
    /\ pc = "strap_batch_ret"
    /\ batchPkgs' = <<>>
    /\ batchAttempt' = 0
    /\ batchLog' = <<>>
    /\ IF StrapGoesOn(ret)
       THEN /\ strapI' = strapI + batch_size
            /\ pc' = "strap_loop"
            /\ ret' = NoRet
            /\ UNCHANGED stack
       ELSE /\ Return(ret)
            /\ UNCHANGED strapI
    /\ UNCHANGED <<exit_code, topCall, faults, pacVars, lockVars, runVars, askVars, strapInput,
                   hookCalls, strapPkgs, batches, zfsVars>>
    /\ UNCHANGED <<cfgVars, setupVars>>
    /\ UNCHANGED pacstraps
    /\ UNCHANGED menuVars

(***************************************************************************)
(* archinstall/__init__.py: _fetch_arch_db, main, run_as_a_module           *)
(***************************************************************************)
\* __init__.py line 63: except Exception as e
FetchCatches(exc) == ExceptException(exc)

\* __init__.py line 96: except Exception as e
TopCatches(exc) == ExceptException(exc)

\* main, lines 77-78: the database is fetched unless --offline
MainStart ==
    /\ pc = "main"
    /\ \E offline \in BOOLEAN :
        IF offline
        THEN Goto("script") /\ UNCHANGED topCall
        ELSE Call("fetch", "top_ret") /\ topCall' = "fetch"
    /\ UNCHANGED <<exit_code, faults, pacVars, lockVars, runVars, askVars, batchVars,
                   strapVars, zfsVars>>
    /\ UNCHANGED <<cfgVars, setupVars>>
    /\ UNCHANGED menuVars

\* _fetch_arch_db, lines 60-62: Pacman.run("-Sy")
FetchCall ==
    /\ pc = "fetch"
    /\ Call("run_check", "fetch_ret")
    /\ UNCHANGED <<exit_code, topCall, faults, pacVars, lockVars, runVars, askVars, batchVars,
                   strapVars, zfsVars>>
    /\ UNCHANGED <<cfgVars, setupVars>>
    /\ UNCHANGED menuVars

\* _fetch_arch_db, lines 63-65: any Exception ends the process with exit(1)
FetchRet ==
    /\ pc = "fetch_ret"
    /\ IF ret.kind = "ok"
       THEN Return(Ok(TRUE))
       ELSE IF FetchCatches(ret.exc)
       THEN Return(Raise(SystemExit(1)))
       ELSE Return(ret)
    /\ runAttempt' = 0
    /\ runDelay' = 0
    /\ runErr' = NoExc
    /\ runLog' = <<>>
    /\ lockWarned' = FALSE
    /\ UNCHANGED <<exit_code, topCall, faults, pacVars, lockSpec, lockElapsed, lockPolls,
                   lastPoll, lockTimedOut, askVars, batchVars, strapVars, zfsVars>>
    /\ UNCHANGED <<cfgVars, setupVars>>
    /\ UNCHANGED menuVars

\* the values of the locals and logs while no call is active
LocalsIdle ==
    /\ lockElapsed' = 0
    /\ lockPolls' = 0
    /\ lastPoll' = "none"
    /\ lockWarned' = FALSE
    /\ runAttempt' = 0
    /\ runDelay' = 0
    /\ runErr' = NoExc
    /\ runLog' = <<>>
    /\ askFunc' = "none"
    /\ askErr' = NoExc
    /\ askLog' = <<>>
    /\ askAnswer' = "none"
    /\ batchPkgs' = <<>>
    /\ batchAttempt' = 0
    /\ batchLog' = <<>>
    /\ strapInput' = <<>>
    /\ hookCalls' = <<>>
    /\ strapPkgs' = <<>>
    /\ strapI' = 0
    /\ batches' = <<>>
    /\ pacstraps' = 0
    /\ zfsPkg' = 0
    /\ zfsAttempt' = 0
    /\ zfsDelay' = 0
    /\ zfsLog' = <<>>

\* run_as_a_module, lines 94-113: an Exception is reported and ends the process
\* with exit(1); SystemExit ends it with its own status; otherwise the script goes
\* on.  The locals of a process that has ended stay as they were.
TopRet ==
    /\ pc = "top_ret"
    /\ IF ret.kind = "ok"
       THEN /\ pc' = "script"
            /\ ret' = NoRet
            /\ topCall' = "none"
            /\ LocalsIdle
            /\ UNCHANGED exit_code
       ELSE /\ pc' = "exited"
            /\ exit_code' = (IF TopCatches(ret.exc) THEN 1 ELSE ret.exc.code)
            /\ UNCHANGED <<ret, topCall, lockElapsed, lockPolls, lastPoll, lockWarned,
                           runVars, askVars, batchVars, strapVars, zfsVars>>
    /\ UNCHANGED <<stack, faults, pacVars, lockSpec, lockTimedOut>>
    /\ UNCHANGED <<cfgVars, setupVars>>
    /\ UNCHANGED menuVars

\* the installation script calls Pacman.sync()
CallSync ==
    /\ pc = "script"
    /\ Call("sync_enter", "top_ret")
    /\ topCall' = "sync"
    /\ UNCHANGED <<exit_code, faults, pacVars, lockVars, runVars, askVars, batchVars,
                   strapVars, zfsVars>>
    /\ UNCHANGED <<cfgVars, setupVars>>
    /\ UNCHANGED menuVars

\* the installation script calls Pacman.strap(packages)
CallStrap ==
    /\ pc = "script"
    /\ Call("strap_enter", "top_ret")
    /\ topCall' = "strap"
    /\ UNCHANGED <<exit_code, faults, pacVars, lockVars, runVars, askVars, batchVars,
                   strapVars, zfsVars>>
    /\ UNCHANGED <<cfgVars, setupVars>>
    /\ UNCHANGED menuVars

\* the installation script calls zfs_manager.install_zfs_packages(target)
CallInstallZfs ==
    /\ pc = "script"
    /\ Call("zfs_enter", "top_ret")
    /\ topCall' = "zfs"
    /\ UNCHANGED <<exit_code, faults, pacVars, lockVars, runVars, askVars, batchVars,
                   strapVars, zfsVars>>
    /\ UNCHANGED <<cfgVars, setupVars>>
    /\ UNCHANGED menuVars

\* main returns: the process ends with status 0
Finish ==
    /\ pc = "script"
    /\ pc' = "exited"
    /\ exit_code' = 0
    /\ UNCHANGED <<stack, ret, topCall, faults, pacVars, lockVars, runVars, askVars, batchVars,
                   strapVars, zfsVars>>
    /\ UNCHANGED <<cfgVars, setupVars>>
    /\ UNCHANGED menuVars

(***************************************************************************)
(* ZFSManager.install_zfs_packages                                         *)
(***************************************************************************)
\* zfs.py line 233
ZFS_PACKAGES == <<"zfs-dkms", "zfs-utils">>
\* zfs.py lines 234-235
ZFS_PKG_MAX_RETRIES == 3
ZFS_PKG_RETRY_DELAY == 5
\* zfs.py lines 269-270
ZFS_INIT_MAX_RETRIES == 3
ZFS_INIT_RETRY_DELAY == 5

ZfsErrors == {"E_TARGET"}

ZfsPkgMayRetryOffByOne(attempt) == attempt < ZFS_PKG_MAX_RETRIES

\* zfs.py line 244: if attempt < max_retries - 1
ZfsPkgMayRetry(attempt) == attempt < ZFS_PKG_MAX_RETRIES - 1

\* zfs.py line 277: if attempt < max_retries - 1
ZfsInitMayRetry(attempt) == attempt < ZFS_INIT_MAX_RETRIES - 1

\* what reading (and rewriting) a configuration file of the target can give
FileReads == {"present", "absent"} \cup (IF faults > 0 THEN {"io_error"} ELSE {})

\* zfs.py lines 195-200: linux-headers, a failure is only warned about
ZfsHeaders ==
    /\ pc = "zfs_enter"
    /\ \E o \in Outcomes(ZfsErrors) :
        /\ faults' = Spend(o)
        /\ zfsLog' = <<Ev("cmd", "linux-headers", o, 0)>>
    /\ zfsPkg' = 0
    /\ zfsAttempt' = 0
    /\ zfsDelay' = 0
    /\ Goto("zfs_official")
    /\ UNCHANGED <<exit_code, topCall, pacVars, lockVars, runVars, askVars, batchVars, strapVars>>
    /\ UNCHANGED <<cfgVars, setupVars>>
    /\ UNCHANGED menuVars

\* zfs.py lines 203-207: zfs-dkms and zfs-utils from the official repositories
ZfsOfficial ==
    /\ pc = "zfs_official"
    /\ \E o \in Outcomes(ZfsErrors) :
        /\ faults' = Spend(o)
        /\ zfsLog' = Append(zfsLog, Ev("cmd", "official", o, 0))
        /\ Goto(IF o = "ok" THEN "zfs_mkinitcpio" ELSE "zfs_repo")
    /\ UNCHANGED <<exit_code, topCall, pacVars, lockVars, runVars, askVars, batchVars, strapVars,
                   zfsPkg, zfsAttempt, zfsDelay>>
    /\ UNCHANGED <<cfgVars, setupVars>>
    /\ UNCHANGED menuVars

\* zfs.py lines 210-216: the archzfs repository is appended to pacman.conf
\* unless it is there; an I/O error is caught at line 288
ZfsRepo ==
    /\ pc = "zfs_repo"
    /\ \E r \in FileReads :
        /\ faults' = (IF r = "io_error" THEN faults - 1 ELSE faults)
        /\ zfsLog' = Append(zfsLog, Ev("file", "pacman.conf", r, 0))
        /\ IF r = "io_error" THEN Return(Ok(FALSE)) ELSE Goto("zfs_key")
    /\ UNCHANGED <<exit_code, topCall, pacVars, lockVars, runVars, askVars, batchVars, strapVars,
                   zfsPkg, zfsAttempt, zfsDelay>>
    /\ UNCHANGED <<cfgVars, setupVars>>
    /\ UNCHANGED menuVars

\* zfs.py lines 219-223: pacman-key -r, then --lsign-key; a failure is only warned
ZfsKey ==
    /\ pc = "zfs_key"
    /\ \E o1 \in Outcomes(ZfsErrors) :
        IF o1 # "ok"
        THEN /\ faults' = Spend(o1)
             /\ zfsLog' = Append(zfsLog, Ev("cmd", "key-recv", o1, 0))
        ELSE \E o2 \in Outcomes(ZfsErrors) :
             /\ faults' = Spend(o2)
             /\ zfsLog' = zfsLog \o <<Ev("cmd", "key-recv", o1, 0),
                                      Ev("cmd", "key-lsign", o2, 0)>>
    /\ Goto("zfs_update")
    /\ UNCHANGED <<exit_code, topCall, pacVars, lockVars, runVars, askVars, batchVars, strapVars,
                   zfsPkg, zfsAttempt, zfsDelay>>
    /\ UNCHANGED <<cfgVars, setupVars>>
    /\ UNCHANGED menuVars

\* zfs.py lines 226-235: pacman -Syy, a failure is only warned about
ZfsUpdate ==
    /\ pc = "zfs_update"
    /\ \E o \in Outcomes(ZfsErrors) :
        /\ faults' = Spend(o)
        /\ zfsLog' = Append(zfsLog, Ev("cmd", "update", o, 0))
    /\ zfsPkg' = 1
    /\ zfsAttempt' = 0
    /\ zfsDelay' = ZFS_PKG_RETRY_DELAY
    /\ Goto("zfs_pkg_loop")
    /\ UNCHANGED <<exit_code, topCall, pacVars, lockVars, runVars, askVars, batchVars, strapVars>>
    /\ UNCHANGED <<cfgVars, setupVars>>
    /\ UNCHANGED menuVars

\* zfs.py lines 237-244, 249-251: one pass of the loop over pkg and attempt
ZfsPkgTry ==
    /\ pc = "zfs_pkg_loop"
    /\ IF zfsPkg > Len(ZFS_PACKAGES)
       THEN /\ Goto("zfs_mkinitcpio")
            /\ UNCHANGED <<faults, zfsLog, zfsPkg, zfsAttempt>>
       ELSE IF zfsAttempt >= ZFS_PKG_MAX_RETRIES
       THEN /\ Goto("zfs_pkg_loop")
            /\ zfsPkg' = zfsPkg + 1
            /\ zfsAttempt' = 0
            /\ UNCHANGED <<faults, zfsLog>>
       ELSE \E o \in Outcomes(ZfsErrors) :
            /\ faults' = Spend(o)
            /\ zfsLog' = Append(zfsLog, Ev("attempt", ZFS_PACKAGES[zfsPkg], o, 0))
            /\ IF o = "ok"
               THEN /\ Goto("zfs_pkg_loop")
                    /\ zfsPkg' = zfsPkg + 1
                    /\ zfsAttempt' = 0
               ELSE IF ZfsPkgMayRetry(zfsAttempt)
               THEN /\ Goto("zfs_pkg_backoff")
                    /\ UNCHANGED <<zfsPkg, zfsAttempt>>
               ELSE /\ Return(Ok(FALSE))
                    /\ UNCHANGED <<zfsPkg, zfsAttempt>>
    /\ UNCHANGED <<exit_code, topCall, pacVars, lockVars, runVars, askVars, batchVars, strapVars,
                   zfsDelay>>
    /\ UNCHANGED <<cfgVars, setupVars>>
    /\ UNCHANGED menuVars

\* zfs.py lines 245-248: the backoff sleep and the doubling
ZfsPkgBackoff ==
    /\ pc = "zfs_pkg_backoff"
    /\ zfsLog' = Append(zfsLog, Ev("wait", ZFS_PACKAGES[zfsPkg], "", zfsDelay))
    /\ zfsDelay' = zfsDelay * 2
    /\ zfsAttempt' = zfsAttempt + 1
    /\ Goto("zfs_pkg_loop")
    /\ UNCHANGED <<exit_code, topCall, faults, pacVars, lockVars, runVars, askVars, batchVars,
                   strapVars, zfsPkg>>
    /\ UNCHANGED <<cfgVars, setupVars>>
    /\ UNCHANGED menuVars

\* zfs.py lines 254-270: the zfs hook is written to mkinitcpio.conf unless it
\* is there; an I/O error is caught at line 288
ZfsMkinitcpio ==
    /\ pc = "zfs_mkinitcpio"
    /\ \E r \in FileReads :
        /\ faults' = (IF r = "io_error" THEN faults - 1 ELSE faults)
        /\ zfsLog' = Append(zfsLog, Ev("file", "mkinitcpio.conf", r, 0))
        /\ IF r = "io_error" THEN Return(Ok(FALSE)) ELSE Goto("zfs_init_loop")
    /\ zfsPkg' = 0
    /\ zfsAttempt' = 0
    /\ zfsDelay' = ZFS_INIT_RETRY_DELAY
    /\ UNCHANGED <<exit_code, topCall, pacVars, lockVars, runVars, askVars, batchVars, strapVars>>
    /\ UNCHANGED <<cfgVars, setupVars>>
    /\ UNCHANGED menuVars

\* zfs.py lines 272-277, 282-286: one pass of the loop rebuilding the initramfs
ZfsInitTry ==
    /\ pc = "zfs_init_loop"
    /\ IF zfsAttempt >= ZFS_INIT_MAX_RETRIES
       THEN /\ Return(Ok(TRUE))
            /\ UNCHANGED <<faults, zfsLog>>
       ELSE \E o \in Outcomes(ZfsErrors) :
            /\ faults' = Spend(o)
            /\ zfsLog' = Append(zfsLog, Ev("attempt", "mkinitcpio", o, 0))
            /\ IF o = "ok"
               THEN Return(Ok(TRUE))
               ELSE IF ZfsInitMayRetry(zfsAttempt)
               THEN Goto("zfs_init_backoff")
               ELSE Return(Ok(FALSE))
    /\ UNCHANGED <<exit_code, topCall, pacVars, lockVars, runVars, askVars, batchVars, strapVars,
                   zfsPkg, zfsAttempt, zfsDelay>>
    /\ UNCHANGED <<cfgVars, setupVars>>
    /\ UNCHANGED menuVars

\* zfs.py lines 278-281: the backoff sleep and the doubling
ZfsInitBackoff ==
    /\ pc = "zfs_init_backoff"
    /\ zfsLog' = Append(zfsLog, Ev("wait", "mkinitcpio", "", zfsDelay))
    /\ zfsDelay' = zfsDelay * 2
    /\ zfsAttempt' = zfsAttempt + 1
    /\ Goto("zfs_init_loop")
    /\ UNCHANGED <<exit_code, topCall, faults, pacVars, lockVars, runVars, askVars, batchVars,
                   strapVars, zfsPkg>>
    /\ UNCHANGED <<cfgVars, setupVars>>
    /\ UNCHANGED menuVars

(***************************************************************************)
(* lib.storage.storage (used as a dict) and ZFSManager.__init__            *)
(***************************************************************************)
ZfsKeys == {"zfs_pool_name", "zfs_compression", "zfs_boot_environment", "zfs_encryption",
            "zfs_encryption_password"}

\* a store: the keys that are set and their values; the value kept for a key
\* that is not set is never read
Unset == [zfs_pool_name |-> "", zfs_compression |-> "", zfs_boot_environment |-> "",
          zfs_encryption |-> FALSE, zfs_encryption_password |-> ""]
Store(present, val) ==
    [present |-> present,
     val |-> [k \in ZfsKeys |-> IF k \in present THEN val[k] ELSE Unset[k]]]
EmptyStore == Store({}, Unset)

\* the values the menu or a configuration file may have stored
StoredValues ==
    [zfs_pool_name : {"tank"}, zfs_compression : {"zstd"}, zfs_boot_environment : {"be1"},
     zfs_encryption : BOOLEAN, zfs_encryption_password : {"", "pw"}]
Stores == {Store(p, v) : p \in SUBSET ZfsKeys, v \in StoredValues}

StorageIndex(st, key, default) == st.val[key]

\* zfs.py lines 21-25: storage.get(key, default)
StorageGet(st, key, default) == IF key \in st.present THEN st.val[key] ELSE default

\* zfs.py lines 19-25
ZfsManagerNew(st) ==
    [pool_name |-> StorageGet(st, "zfs_pool_name", "rpool"),
     compression |-> StorageGet(st, "zfs_compression", "lz4"),
     boot_environment |-> StorageGet(st, "zfs_boot_environment", "default"),
     enable_encryption |-> StorageGet(st, "zfs_encryption", FALSE),
     encryption_password |-> StorageGet(st, "zfs_encryption_password", "")]

\* no instance yet
NoManager ==
    [pool_name |-> "", compression |-> "", boot_environment |-> "",
     enable_encryption |-> FALSE, encryption_password |-> ""]

\* zfs.py line 355: zfs_manager = ZFSManager(), when lib.zfs is imported
ZfsManagerInit ==
    /\ pc = "zfs_import"
    /\ zfsCfg' = ZfsManagerNew(storage)
    /\ Goto("zfs_script")
    /\ UNCHANGED <<exit_code, topCall, faults, pacVars, lockVars, runVars, askVars, batchVars,
                   strapVars, zfsVars, storage, setupVars>>
    /\ UNCHANGED menuVars

(***************************************************************************)
(* ZFSManager.setup_zfs_system and the steps it runs                       *)
(***************************************************************************)
StepsWithoutSwap == <<"create_pool", "create_datasets", "setup_encryption",
                      "mount_datasets", "configure_boot", "install_zfs_packages",
                      "configure_bootloader">>

\* zfs.py lines 335-344
STEPS == <<"create_pool", "create_datasets", "setup_encryption", "create_swap",
           "mount_datasets", "configure_boot", "install_zfs_packages",
           "configure_bootloader">>

\* zfs.py line 86: the step does nothing unless encryption is on and has a password
EncryptionSkipped(cfg) == ~cfg.enable_encryption \/ cfg.encryption_password = ""

\* the external commands and file operations of a step, in the order of its body
StepCommands(name, cfg) ==
    CASE name = "create_pool" -> <<"zpool create">>
      [] name = "create_datasets" ->
            <<"zfs create ROOT", "zfs create ROOT/be", "zfs create home", "zfs create var",
              "zfs create var/lib", "zfs create var/log">>
      [] name = "setup_encryption" ->
            IF EncryptionSkipped(cfg) THEN <<>> ELSE <<"zfs create encrypted">>
      [] name = "create_swap" -> <<"zfs create swap", "zfs create swapfile", "mkswap">>
      [] name = "mount_datasets" ->
            <<"zpool export", "zpool import", "zfs mount root", "zfs mount -a">>
      [] name = "configure_boot" ->
            <<"zpool set bootfs", "mkdir etc/zfs", "zpool set cachefile",
              "enable zfs.target", "enable zfs-import-cache", "enable zfs-mount",
              "enable zfs-import.target">>
      [] name = "configure_bootloader" ->
            <<"pacman grub", "edit etc/default/grub", "grub-install", "grub-mkconfig">>
      [] OTHER -> <<>>

\* how a command of a step may end: "ok", an exception, and for zpool create
\* also a result whose exit_code is not 0 (lines 43-46)
StepOutcomes(cmd) ==
    IF faults = 0 THEN {"ok"}
    ELSE IF cmd = "zpool create" THEN {"ok", "E_CMD", "nonzero"} ELSE {"ok", "E_CMD"}

SetupGoesOnAnyway(r) == TRUE

ConfigFromStore(cfg, st) == ZfsManagerNew(st)

\* zfs.py line 86: the steps read self.enable_encryption and
\* self.encryption_password, the attributes __init__ assigned, not storage
ConfigInUse(cfg, st) == cfg

\* zfs.py line 347: if not step_func(*step_args)
SetupGoesOn(r) == r.val

\* the script calls zfs_manager.setup_zfs_system(devices, mount)
CallSetupZfs ==
    /\ pc = "zfs_script"
    /\ Call("setup_loop", "top_ret")
    /\ topCall' = "setup"
    /\ setupStep' = 0
    /\ setupCmd' = 0
    /\ setupLog' = <<>>
    /\ UNCHANGED <<exit_code, faults, pacVars, lockVars, runVars, askVars, batchVars,
                   strapVars, zfsVars, cfgVars>>
    /\ UNCHANGED menuVars

\* zfs.py lines 346-347, 351-352: the next step is called, or True is returned
SetupNext ==
    /\ pc = "setup_loop"
    /\ IF setupStep >= Len(STEPS)
       THEN /\ Return(Ok(TRUE))
            /\ setupLog' = Append(setupLog, Ev("completed", "setup", "True", 0))
            /\ UNCHANGED setupCmd
       ELSE LET name == STEPS[setupStep + 1] IN
            /\ setupLog' = Append(setupLog, Ev("step", name, "", setupStep))
            /\ setupCmd' = 0
            /\ IF name = "install_zfs_packages"
               THEN Call("zfs_enter", "setup_ret")
               ELSE Goto("setup_cmd")
    /\ UNCHANGED <<exit_code, topCall, faults, pacVars, lockVars, runVars, askVars, batchVars,
                   strapVars, zfsVars, cfgVars, setupStep>>
    /\ UNCHANGED menuVars

\* the body of a step other than install_zfs_packages: its commands one after
\* the other inside try; except Exception returns False (lines 50-52, 80-82,
\* 109-111, 137-139, 158-160, 187-189, 320-322)
SetupCmd ==
    /\ pc = "setup_cmd"
    /\ LET name == STEPS[setupStep + 1]
           cmds == StepCommands(name, ConfigInUse(zfsCfg, storage))
       IN  IF setupCmd >= Len(cmds)
           THEN /\ pc' = "setup_ret"
                /\ ret' = Ok(TRUE)
                /\ UNCHANGED <<stack, faults, setupCmd, setupLog>>
           ELSE \E o \in StepOutcomes(cmds[setupCmd + 1]) :
                /\ faults' = Spend(o)
                /\ setupLog' = Append(setupLog, Ev("cmd", cmds[setupCmd + 1], o, 0))
                /\ setupCmd' = setupCmd + 1
                /\ IF o = "ok"
                   THEN Goto("setup_cmd")
                   ELSE /\ pc' = "setup_ret"
                        /\ ret' = Ok(FALSE)
                        /\ UNCHANGED stack
    /\ UNCHANGED <<exit_code, topCall, pacVars, lockVars, runVars, askVars, batchVars,
                   strapVars, zfsVars, cfgVars, setupStep>>
    /\ UNCHANGED menuVars

\* zfs.py lines 347-349: a step that returned False ends the run with False
SetupRet ==
    /\ pc = "setup_ret"
    /\ LET name == STEPS[setupStep + 1] IN
       IF ret.kind = "raise"
       THEN /\ Return(ret)
            /\ UNCHANGED <<setupStep, setupLog>>
       ELSE IF SetupGoesOn(ret)
       THEN /\ setupLog' = Append(setupLog, Ev("result", name,
                                               IF ret.val THEN "True" ELSE "False", 0))
            /\ setupStep' = setupStep + 1
            /\ pc' = "setup_loop"
            /\ ret' = NoRet
            /\ UNCHANGED stack
       ELSE /\ setupLog' = setupLog \o <<Ev("result", name, "False", 0),
                                         Ev("error", name, "", 0)>>
            /\ Return(Ok(FALSE))
            /\ UNCHANGED setupStep
    /\ UNCHANGED <<exit_code, topCall, faults, pacVars, lockVars, runVars, askVars, batchVars,
                   strapVars, zfsVars, cfgVars, setupCmd>>
    /\ UNCHANGED menuVars

(***************************************************************************)
(* tui/zfs_menu.py: ZFSMenu.show and ZFSMenu._prompt_boot_strategy          *)
(***************************************************************************)
\* storage[key] = v
StorageSet(st, key, v) ==
    [present |-> st.present \cup {key}, val |-> [st.val EXCEPT ![key] = v]]

\* zfs_menu.py lines 25-29 (line 30 sets the boot strategy)
MenuDefaults(st) ==
    [present |-> ZfsKeys,
     val |-> [zfs_pool_name |-> "ROOT", zfs_compression |-> "lz4",
              zfs_boot_environment |-> "default", zfs_encryption |-> FALSE,
              zfs_encryption_password |-> ""]]

\* what the disks hold: no partition, partitions none of which is mounted on
\* /boot, or partitions one of which is (lines 194-203)
Devices == {"blank", "partitions", "boot"}
has_existing_partitions == devices # "blank"
has_existing_boot == devices = "boot"

\* what a menu hands back: result.type_ is Selection or not, and the text or
\* the value of the item
NoDialog == [menu |-> "none", selected |-> FALSE, value |-> ""]
Results(menu, values) ==
    {[menu |-> menu, selected |-> sel, value |-> v] : sel \in BOOLEAN, v \in values}

\* what the operator may type or pick
PoolTexts == {"", "tank"}
DatasetTexts == {"", "be1"}
PasswordTexts == {"", "pw", "pw2"}
CompressionValues == {"lz4", "zstd", "gzip", "off"}
BootStrategies == {"zfs_boot", "separate_boot"}
WarningValues == {"keep", "delete"}

\* lines 37-49: the options of the main menu
MenuOptions ==
    {"Pool Name", "Compression", "ZFS System Root Dataset Name", "Boot Strategy",
     "Enable Encryption"}
        \cup (IF StorageGet(storage, "zfs_encryption", FALSE)
              THEN {"Encryption Password"} ELSE {})
        \cup (IF ~minimal THEN {"Save and Return"} ELSE {})

\* line 133: ... and storage.get('zfs_encryption', False)
PasswordBranch(st) == StorageGet(st, "zfs_encryption", FALSE)

\* line 140: result.type_ == ResultType.Selection and result.text()
EntryAccepted(r) == r.selected /\ r.value # ""

\* line 148: confirm_result.type_ == ResultType.Selection and
\* confirm_result.text() == password
ConfirmedUnlessSkipped(c, password) == c.selected
Confirmed(c, password) == c.selected /\ c.value = password

\* lines 237-238: elif has_existing_boot, in the branch of a selection that is
\* not 'delete'
KeepsBootNever(r) == FALSE
KeepsBoot(r) == r.selected /\ r.value # "delete" /\ has_existing_boot

\* the installer calls ZFSMenu(...).show(): lines 23-34
MenuShow ==
    /\ pc = "zfs_script"
    /\ UNCHANGED <<stack, ret>>
    /\ IF StorageGet(storage, "zfs_pool_name", "") = ""
       THEN storage' = MenuDefaults(storage) /\ bootStrategy' = "zfs_boot"
       ELSE UNCHANGED <<storage, bootStrategy>>
    /\ pc' = (IF bootSelected THEN "menu_loop" ELSE "boot_enter")
    /\ shown' = {}
    /\ UNCHANGED <<exit_code, topCall, faults, pacVars, lockVars, runVars, askVars, batchVars,
                   strapVars, zfsVars, zfsCfg, setupVars>>
    /\ UNCHANGED <<minimal, is_guided, devices, bootSelected, deviceMods, menuPassword, dialog>>

\* lines 56-64, 153-154: the main menu returns no selection, or Save and Return
MenuReturn ==
    /\ pc = "menu_loop"
    /\ \E save \in BOOLEAN : save => "Save and Return" \in MenuOptions
    /\ Goto("zfs_script")
    /\ UNCHANGED <<exit_code, topCall, faults, pacVars, lockVars, runVars, askVars,
                   batchVars, strapVars, zfsVars, cfgVars, setupVars, menuVars>>

\* lines 69-79
MenuPoolName ==
    /\ pc = "menu_loop"
    /\ \E r \in Results("pool", PoolTexts) :
          storage' = (IF EntryAccepted(r)
                      THEN StorageSet(storage, "zfs_pool_name", r.value) ELSE storage)
    /\ UNCHANGED <<ctlVars, pacVars, lockVars, runVars, askVars, batchVars, strapVars, zfsVars,
                   zfsCfg, setupVars, menuVars>>

\* lines 81-99
MenuCompression ==
    /\ pc = "menu_loop"
    /\ \E r \in Results("compression", CompressionValues) :
          storage' = (IF r.selected
                      THEN StorageSet(storage, "zfs_compression", r.value) ELSE storage)
    /\ UNCHANGED <<ctlVars, pacVars, lockVars, runVars, askVars, batchVars, strapVars, zfsVars,
                   zfsCfg, setupVars, menuVars>>

\* lines 101-109
MenuDatasetName ==
    /\ pc = "menu_loop"
    /\ \E r \in Results("dataset", DatasetTexts) :
          storage' = (IF EntryAccepted(r)
                      THEN StorageSet(storage, "zfs_boot_environment", r.value) ELSE storage)
    /\ UNCHANGED <<ctlVars, pacVars, lockVars, runVars, askVars, batchVars, strapVars, zfsVars,
                   zfsCfg, setupVars, menuVars>>

\* lines 111-112
MenuBootStrategy ==
    /\ pc = "menu_loop"
    /\ Goto("boot_enter")
    /\ shown' = {}
    /\ UNCHANGED <<exit_code, topCall, faults, pacVars, lockVars, runVars, askVars, batchVars,
                   strapVars, zfsVars, cfgVars, setupVars>>
    /\ UNCHANGED <<minimal, is_guided, devices, bootStrategy, bootSelected, deviceMods,
                   menuPassword, dialog>>

\* lines 114-131: storage['zfs_encryption'] = result.item() == MenuItem.yes()
MenuEncryption ==
    /\ pc = "menu_loop"
    /\ \E yes \in BOOLEAN : storage' = StorageSet(storage, "zfs_encryption", yes)
    /\ UNCHANGED <<ctlVars, pacVars, lockVars, runVars, askVars, batchVars, strapVars, zfsVars,
                   zfsCfg, setupVars, menuVars>>

\* lines 133-137: the option is there and the first EditMenu has run
MenuPasswordEntry ==
    /\ pc = "menu_loop"
    /\ "Encryption Password" \in MenuOptions
    /\ PasswordBranch(storage)
    /\ \E r \in Results("password", PasswordTexts) : dialog' = r
    /\ Goto("menu_entered")
    /\ UNCHANGED <<exit_code, topCall, faults, pacVars, lockVars, runVars, askVars, batchVars,
                   strapVars, zfsVars, cfgVars, setupVars>>
    /\ UNCHANGED <<minimal, is_guided, devices, bootStrategy, bootSelected, deviceMods,
                   menuPassword, shown>>

\* lines 139-140: password = result.text(), or back to the main menu
MenuPasswordEntered ==
    /\ pc = "menu_entered"
    /\ dialog' = NoDialog
    /\ IF EntryAccepted(dialog)
       THEN Goto("menu_confirm") /\ menuPassword' = dialog.value
       ELSE Goto("menu_loop") /\ menuPassword' = ""
    /\ UNCHANGED <<exit_code, topCall, faults, pacVars, lockVars, runVars, askVars, batchVars,
                   strapVars, zfsVars, cfgVars, setupVars>>
    /\ UNCHANGED <<minimal, is_guided, devices, bootStrategy, bootSelected, deviceMods, shown>>

\* lines 142-146: the second EditMenu has run
MenuPasswordConfirm ==
    /\ pc = "menu_confirm"
    /\ \E c \in Results("confirm", PasswordTexts) : dialog' = c
    /\ Goto("menu_confirmed")
    /\ UNCHANGED <<exit_code, topCall, faults, pacVars, lockVars, runVars, askVars, batchVars,
                   strapVars, zfsVars, cfgVars, setupVars>>
    /\ UNCHANGED <<minimal, is_guided, devices, bootStrategy, bootSelected, deviceMods,
                   menuPassword, shown>>

\* lines 148-151: the password is stored, or 'Passwords do not match'
MenuPasswordStore ==
    /\ pc = "menu_confirmed"
    /\ storage' = (IF Confirmed(dialog, menuPassword)
                   THEN StorageSet(storage, "zfs_encryption_password", menuPassword)
                   ELSE storage)
    /\ menuPassword' = ""
    /\ dialog' = NoDialog
    /\ Goto("menu_loop")
    /\ UNCHANGED <<exit_code, topCall, faults, pacVars, lockVars, runVars, askVars, batchVars,
                   strapVars, zfsVars, zfsCfg, setupVars>>
    /\ UNCHANGED <<minimal, is_guided, devices, bootStrategy, bootSelected, deviceMods, shown>>

\* _prompt_boot_strategy, lines 159-166 (guided: every device is wiped) and
\* lines 194-206 (manual: the look at the partitions)
BootEnter ==
    /\ pc = "boot_enter"
    /\ dialog' = NoDialog
    /\ IF is_guided
       THEN /\ deviceMods' = "wipe_all"
            /\ Goto("boot_select")
       ELSE /\ UNCHANGED deviceMods
            /\ Goto(IF has_existing_partitions THEN "boot_warning" ELSE "boot_select")
    /\ UNCHANGED <<exit_code, topCall, faults, pacVars, lockVars, runVars, askVars, batchVars,
                   strapVars, zfsVars, cfgVars, setupVars>>
    /\ UNCHANGED <<minimal, is_guided, devices, bootStrategy, bootSelected, menuPassword, shown>>

\* lines 207-225: the warning about existing partitions has run
BootWarning ==
    /\ pc = "boot_warning"
    /\ \E r \in Results("warning", WarningValues) : dialog' = r
    /\ shown' = shown \cup {"warning"}
    /\ Goto("boot_warned")
    /\ UNCHANGED <<exit_code, topCall, faults, pacVars, lockVars, runVars, askVars, batchVars,
                   strapVars, zfsVars, cfgVars, setupVars>>
    /\ UNCHANGED <<minimal, is_guided, devices, bootStrategy, bootSelected, deviceMods,
                   menuPassword>>

\* lines 227-242: delete wipes every device; keeping an existing /boot forces
\* the strategy and returns; otherwise the selection follows
BootWarned ==
    /\ pc = "boot_warned"
    /\ dialog' = NoDialog
    /\ IF dialog.selected /\ dialog.value = "delete"
       THEN /\ deviceMods' = "wipe_all"
            /\ Goto("boot_select")
            /\ UNCHANGED <<bootStrategy, bootSelected>>
       ELSE IF KeepsBoot(dialog)
       THEN /\ bootStrategy' = "separate_boot"
            /\ bootSelected' = TRUE
            /\ Goto("menu_loop")
            /\ UNCHANGED deviceMods
       ELSE /\ Goto("boot_select")
            /\ UNCHANGED <<bootStrategy, bootSelected, deviceMods>>
    /\ UNCHANGED <<exit_code, topCall, faults, pacVars, lockVars, runVars, askVars, batchVars,
                   strapVars, zfsVars, cfgVars, setupVars>>
    /\ UNCHANGED <<minimal, is_guided, devices, menuPassword, shown>>

\* lines 169-191 and 245-266: the selection of the strategy
BootSelect ==
    /\ pc = "boot_select"
    /\ shown' = shown \cup {"strategy"}
    /\ \E r \in Results("strategy", BootStrategies) :
          IF r.selected
          THEN bootStrategy' = r.value /\ bootSelected' = TRUE
          ELSE UNCHANGED <<bootStrategy, bootSelected>>
    /\ Goto("menu_loop")
    /\ UNCHANGED <<exit_code, topCall, faults, pacVars, lockVars, runVars, askVars, batchVars,
                   strapVars, zfsVars, cfgVars, setupVars>>
    /\ UNCHANGED <<minimal, is_guided, devices, deviceMods, menuPassword, dialog>>

MenuNext ==
    \/ MenuShow \/ MenuReturn \/ MenuPoolName \/ MenuCompression \/ MenuDatasetName
    \/ MenuBootStrategy \/ MenuEncryption
    \/ MenuPasswordEntry \/ MenuPasswordEntered \/ MenuPasswordConfirm \/ MenuPasswordStore
    \/ BootEnter \/ BootWarning \/ BootWarned \/ BootSelect

(***************************************************************************)
(* The specifications.                                                     *)
(***************************************************************************)
InitLocals ==
    /\ lockElapsed = 0
    /\ lockPolls = 0
    /\ lastPoll = "none"
    /\ lockWarned = FALSE
    /\ lockTimedOut = FALSE
    /\ runAttempt = 0
    /\ runDelay = 0
    /\ runErr = NoExc
    /\ runLog = <<>>
    /\ askFunc = "none"
    /\ askErr = NoExc
    /\ askLog = <<>>
    /\ askAnswer = "none"
    /\ batchPkgs = <<>>
    /\ batchAttempt = 0
    /\ batchLog = <<>>
    /\ strapInput = <<>>
    /\ hookCalls = <<>>
    /\ strapPkgs = <<>>
    /\ strapI = 0
    /\ batches = <<>>
    /\ pacstraps = 0
    /\ zfsPkg = 0
    /\ zfsAttempt = 0
    /\ zfsDelay = 0
    /\ zfsLog = <<>>
    /\ setupStep = 0
    /\ setupCmd = 0
    /\ setupLog = <<>>

\* no ZFSMenu has been shown
InitNoMenu ==
    /\ minimal = FALSE
    /\ is_guided = FALSE
    /\ devices = "blank"
    /\ bootStrategy = "unset"
    /\ bootSelected = FALSE
    /\ deviceMods = "unset"
    /\ menuPassword = ""
    /\ shown = {}
    /\ dialog = NoDialog

\* lib.zfs has been imported while no zfs key was set
InitZfsManager ==
    /\ storage = EmptyStore
    /\ zfsCfg = ZfsManagerNew(EmptyStore)

\* The process starts in main with a Pacman as __init__ leaves it (lines 20-26);
\* no plugin is registered.
Init ==
    /\ pc = "main"
    /\ stack = <<>>
    /\ ret = NoRet
    /\ exit_code = -1
    /\ topCall = "none"
    /\ faults = MaxFaults
    /\ synced = FALSE
    /\ silent \in BOOLEAN
    /\ max_retries = MAX_RETRIES
    /\ retry_delay = RETRY_DELAY
    /\ batch_size = BATCH_SIZE
    /\ plugins = <<>>
    /\ lockSpec = PacmanLockWait
    /\ InitLocals
    /\ InitNoMenu
    /\ InitZfsManager

PacmanNext ==
    \/ RunCheck \/ RunWhile \/ RunSleep \/ RunTry \/ RunBackoff \/ RunRefresh
    \/ AskTry \/ AskRet \/ AskExcept \/ AskAnswer
    \/ SyncEnter \/ SyncRet
    \/ BatchTry \/ BatchRet \/ BatchBackoff \/ BatchSyncRet
    \/ StrapEnter \/ StrapSyncRet \/ StrapLoop \/ StrapBatchRet

ZfsNext ==
    \/ ZfsHeaders \/ ZfsOfficial \/ ZfsRepo \/ ZfsKey \/ ZfsUpdate
    \/ ZfsPkgTry \/ ZfsPkgBackoff \/ ZfsMkinitcpio \/ ZfsInitTry \/ ZfsInitBackoff

Next ==
    \/ MainStart \/ FetchCall \/ FetchRet \/ TopRet
    \/ CallSync \/ CallStrap \/ CallInstallZfs \/ Finish
    \/ PacmanNext
    \/ ZfsNext

Spec == Init /\ [][Next]_vars

(***************************************************************************)
(* SpecStrap: one call of Pacman.strap, just entered, on an instance whose *)
(* attributes the caller has set and whose database is synced (the state a *)
(* successful sync() leaves).                                              *)
(***************************************************************************)
InitRegistries == {<<>>, <<[name |-> 1, kind |-> "add"]>>}

InitStrap ==
    /\ pc = "strap_enter"
    /\ stack = <<"top_ret">>
    /\ ret = NoRet
    /\ exit_code = -1
    /\ topCall = "strap"
    /\ faults = MaxStrapFaults
    /\ synced = TRUE
    /\ silent \in BOOLEAN
    /\ max_retries \in 1 .. MaxRetries
    /\ retry_delay = RETRY_DELAY
    /\ batch_size \in 1 .. MaxBatchSize
    /\ plugins \in InitRegistries
    /\ lockSpec = PacmanLockWait
    /\ InitLocals
    /\ InitNoMenu
    /\ InitZfsManager

NextStrap ==
    \/ StrapEnter \/ SyncEnter \/ StrapSyncRet \/ StrapLoop \/ StrapBatchRet
    \/ BatchTry \/ BatchRet \/ BatchBackoff \/ BatchSyncRet
    \/ AskTry \/ AskExcept \/ AskAnswer
    \/ TopRet \/ Finish

SpecStrap == InitStrap /\ [][NextStrap]_vars

(***************************************************************************)
(* SpecHooks: the script registers plugins and calls Pacman.strap, on an   *)
(* instance whose database is synced.                                      *)
(***************************************************************************)
InitHooks ==
    /\ pc = "script"
    /\ stack = <<>>
    /\ ret = NoRet
    /\ exit_code = -1
    /\ topCall = "none"
    /\ faults = MaxHookFaults
    /\ synced = TRUE
    /\ silent = TRUE
    /\ max_retries = MAX_RETRIES
    /\ retry_delay = RETRY_DELAY
    /\ batch_size = BATCH_SIZE
    /\ plugins = <<>>
    /\ lockSpec = PacmanLockWait
    /\ InitLocals
    /\ InitNoMenu
    /\ InitZfsManager

NextHooks ==
    \/ RegisterPlugin \/ CallStrap
    \/ StrapEnter \/ SyncEnter \/ StrapSyncRet \/ StrapLoop \/ StrapBatchRet
    \/ BatchTry \/ BatchRet \/ BatchBackoff \/ BatchSyncRet
    \/ AskTry \/ AskExcept
    \/ TopRet \/ Finish

SpecHooks == InitHooks /\ [][NextHooks]_vars

(***************************************************************************)
(* SpecFirstStrap: the first call of Pacman.strap on a new instance (the   *)
(* database is not synced yet), with plugins registered before the call.   *)
(***************************************************************************)
FirstStrapRegistries ==
    {<<>>,
     <<[name |-> 1, kind |-> "add"]>>,
     <<[name |-> 1, kind |-> "drop_last"], [name |-> 2, kind |-> "add"]>>,
     <<[name |-> 1, kind |-> "add"], [name |-> 2, kind |-> "raise"]>>,
     <<[name |-> 1, kind |-> "raise"], [name |-> 2, kind |-> "add"]>>,
     <<[name |-> 1, kind |-> "no_attr"], [name |-> 2, kind |-> "none"]>>}

InitFirstStrap ==
    /\ pc = "strap_enter"
    /\ stack = <<"top_ret">>
    /\ ret = NoRet
    /\ exit_code = -1
    /\ topCall = "strap"
    /\ faults = MaxFirstStrapFaults
    /\ synced = FALSE
    /\ silent \in BOOLEAN
    /\ max_retries = MAX_RETRIES
    /\ retry_delay = RETRY_DELAY
    /\ batch_size = BATCH_SIZE
    /\ plugins \in FirstStrapRegistries
    /\ lockSpec = PacmanLockWait
    /\ InitLocals
    /\ InitNoMenu
    /\ InitZfsManager

NextFirstStrap == PacmanNext \/ TopRet \/ Finish

SpecFirstStrap == InitFirstStrap /\ [][NextFirstStrap]_vars

(***************************************************************************)
(* SpecSilentStrap: one call of Pacman.strap in silent mode on a synced     *)
(* instance (sync returns at once, the lock is never looked at), in which  *)
(* any pacstrap command may fail; the thread of control keeps running      *)
(* (weak fairness of its steps).                                           *)
(***************************************************************************)
\* no call of strap runs more pacstrap commands than this
SilentFaults == (MaxPkgs + 1) * MAX_RETRIES

InitSilentStrap ==
    /\ pc = "strap_enter"
    /\ stack = <<"top_ret">>
    /\ ret = NoRet
    /\ exit_code = -1
    /\ topCall = "strap"
    /\ faults = SilentFaults
    /\ synced = TRUE
    /\ silent = TRUE
    /\ max_retries \in 1 .. MAX_RETRIES
    /\ retry_delay = RETRY_DELAY
    /\ batch_size \in 1 .. MaxBatchSize
    /\ plugins \in InitRegistries
    /\ lockSpec = PacmanLockWait
    /\ InitLocals
    /\ InitNoMenu
    /\ InitZfsManager

NextSilentStrap ==
    \/ StrapEnter \/ SyncEnter \/ StrapSyncRet \/ StrapLoop \/ StrapBatchRet
    \/ BatchTry \/ BatchRet \/ BatchBackoff \/ BatchSyncRet
    \/ AskTry \/ AskExcept
    \/ TopRet \/ Finish

SpecSilentStrap == InitSilentStrap /\ [][NextSilentStrap]_vars /\ WF_vars(NextSilentStrap)

(***************************************************************************)
(* SpecLock: _fetch_arch_db with the lock wait of Pacman.run given other   *)
(* poll intervals and timeouts than the 0.25 s and 10 min of the code.     *)
(***************************************************************************)
LockWaitSpecs ==
    {[poll_interval |-> p, timeout |-> t] : p \in {100, 250, 300}, t \in {0, 1000, 1250}}
        \cup {PacmanLockWait}

InitLock ==
    /\ pc = "main"
    /\ stack = <<>>
    /\ ret = NoRet
    /\ exit_code = -1
    /\ topCall = "none"
    /\ faults = MaxFaults
    /\ synced = FALSE
    /\ silent \in BOOLEAN
    /\ max_retries = MAX_RETRIES
    /\ retry_delay = RETRY_DELAY
    /\ batch_size = BATCH_SIZE
    /\ plugins = <<>>
    /\ lockSpec \in LockWaitSpecs
    /\ InitLocals
    /\ InitNoMenu
    /\ InitZfsManager

NextLock ==
    \/ MainStart \/ FetchCall \/ FetchRet \/ TopRet \/ Finish
    \/ RunCheck \/ RunWhile \/ RunSleep \/ RunTry \/ RunBackoff \/ RunRefresh

SpecLock == InitLock /\ [][NextLock]_vars

(***************************************************************************)
(* SpecConfig: lib.zfs is imported, with any of the zfs keys set or not.   *)
(***************************************************************************)
InitConfig ==
    /\ pc = "zfs_import"
    /\ stack = <<>>
    /\ ret = NoRet
    /\ exit_code = -1
    /\ topCall = "none"
    /\ faults = 0
    /\ synced = FALSE
    /\ silent = FALSE
    /\ max_retries = MAX_RETRIES
    /\ retry_delay = RETRY_DELAY
    /\ batch_size = BATCH_SIZE
    /\ plugins = <<>>
    /\ lockSpec = PacmanLockWait
    /\ InitLocals
    /\ InitNoMenu
    /\ storage \in Stores
    /\ zfsCfg = NoManager

NextConfig == ZfsManagerInit

SpecConfig == InitConfig /\ [][NextConfig]_vars

(***************************************************************************)
(* SpecSetup: one call of zfs_manager.setup_zfs_system by the script, the  *)
(* instance built from a store in which the encryption keys may be set.    *)
(***************************************************************************)
SetupStores == {st \in Stores : st.present \subseteq {"zfs_encryption", "zfs_encryption_password"}}

InitSetup ==
    /\ pc = "zfs_script"
    /\ stack = <<>>
    /\ ret = NoRet
    /\ exit_code = -1
    /\ topCall = "none"
    /\ faults = MaxSetupFaults
    /\ synced = FALSE
    /\ silent = FALSE
    /\ max_retries = MAX_RETRIES
    /\ retry_delay = RETRY_DELAY
    /\ batch_size = BATCH_SIZE
    /\ plugins = <<>>
    /\ lockSpec = PacmanLockWait
    /\ InitLocals
    /\ InitNoMenu
    /\ storage \in SetupStores
    /\ zfsCfg = ZfsManagerNew(storage)

NextSetup ==
    \/ CallSetupZfs \/ SetupNext \/ SetupCmd \/ SetupRet
    \/ ZfsNext
    \/ TopRet \/ Finish

SpecSetup == InitSetup /\ [][NextSetup]_vars

(***************************************************************************)
(* SpecMenu: lib.zfs is imported, with no zfs key set or with all of them   *)
(* set by a configuration, and the installer shows ZFSMenu any number of   *)
(* times.                                                                  *)
(***************************************************************************)
ConfiguredStore ==
    Store(ZfsKeys, [zfs_pool_name |-> "tank", zfs_compression |-> "zstd",
                    zfs_boot_environment |-> "be1", zfs_encryption |-> TRUE,
                    zfs_encryption_password |-> "pw"])

InitMenu ==
    /\ pc = "zfs_import"
    /\ stack = <<>>
    /\ ret = NoRet
    /\ exit_code = -1
    /\ topCall = "none"
    /\ faults = 0
    /\ synced = FALSE
    /\ silent = FALSE
    /\ max_retries = MAX_RETRIES
    /\ retry_delay = RETRY_DELAY
    /\ batch_size = BATCH_SIZE
    /\ plugins = <<>>
    /\ lockSpec = PacmanLockWait
    /\ InitLocals
    /\ storage \in {EmptyStore, ConfiguredStore}
    /\ zfsCfg = NoManager
    /\ minimal \in BOOLEAN
    /\ is_guided \in BOOLEAN
    /\ devices \in Devices
    /\ bootStrategy = "unset"
    /\ bootSelected = FALSE
    /\ deviceMods = "unset"
    /\ menuPassword = ""
    /\ shown = {}
    /\ dialog = NoDialog

NextMenu == ZfsManagerInit \/ MenuNext

SpecMenu == InitMenu /\ [][NextMenu]_vars

(***************************************************************************)
(* SpecSnapshot: lib.zfs is imported, the operator chooses a boot strategy *)
(* in guided mode and turns encryption on or off and enters passwords in   *)
(* ZFSMenu, and setup_zfs_system is run.                                   *)
(***************************************************************************)
InitSnapshot ==
    /\ pc = "zfs_import"
    /\ stack = <<>>
    /\ ret = NoRet
    /\ exit_code = -1
    /\ topCall = "none"
    /\ faults = MaxSetupFaults
    /\ synced = FALSE
    /\ silent = FALSE
    /\ max_retries = MAX_RETRIES
    /\ retry_delay = RETRY_DELAY
    /\ batch_size = BATCH_SIZE
    /\ plugins = <<>>
    /\ lockSpec = PacmanLockWait
    /\ InitLocals
    /\ storage \in {EmptyStore, ConfiguredStore}
    /\ zfsCfg = NoManager
    /\ minimal = FALSE
    /\ is_guided = TRUE
    /\ devices = "blank"
    /\ bootStrategy = "unset"
    /\ bootSelected = FALSE
    /\ deviceMods = "unset"
    /\ menuPassword = ""
    /\ shown = {}
    /\ dialog = NoDialog

NextSnapshot ==
    \/ ZfsManagerInit
    \/ MenuShow \/ MenuReturn \/ MenuEncryption
    \/ MenuPasswordEntry \/ MenuPasswordEntered \/ MenuPasswordConfirm \/ MenuPasswordStore
    \/ BootEnter \/ BootSelect
    \/ CallSetupZfs \/ SetupNext \/ SetupCmd \/ SetupRet
    \/ ZfsNext
    \/ TopRet \/ Finish

SpecSnapshot == InitSnapshot /\ [][NextSnapshot]_vars

(***************************************************************************)
(* The claims.                                                             *)
(***************************************************************************)
RunReturned == pc \in {"ask_ret", "fetch_ret"}
BatchReturned == pc = "strap_batch_ret"
ZfsReturned == pc = "top_ret" /\ topCall = "zfs"

RunAttempts == Select(runLog, "attempt")
BatchInvokes == Select(batchLog \o askLog, "invoke")
ZfsAttempts(who) == SelectWho(zfsLog, "attempt", who)
ZfsLoops == {ZFS_PACKAGES[i] : i \in DOMAIN ZFS_PACKAGES} \cup {"mkinitcpio"}
ZfsLoopMax(who) == IF who = "mkinitcpio" THEN ZFS_INIT_MAX_RETRIES ELSE ZFS_PKG_MAX_RETRIES

\* C1: an operation that fails on every attempt is invoked exactly N times for
\* one logical call, never more, and the call then ends in failure: Pacman.run
\* (N = 3), _install_package_batch in silent mode (N = max_retries), and the
\* per-package and initramfs loops of install_zfs_packages (N = 3).
C1_ExactlyNAttempts ==
    /\ Len(RunAttempts) <= RUN_MAX_RETRIES
    /\ (RunReturned /\ ~lockTimedOut /\ AllFailed(RunAttempts))
          => (Len(RunAttempts) = RUN_MAX_RETRIES /\ Caught(ret))
    /\ silent => Len(BatchInvokes) <= max_retries
    /\ (BatchReturned /\ silent /\ AllFailed(BatchInvokes))
          => (Len(BatchInvokes) = max_retries /\ Caught(ret))
    /\ \A who \in ZfsLoops :
          /\ Len(ZfsAttempts(who)) <= ZfsLoopMax(who)
          /\ (ZfsReturned /\ ZfsAttempts(who) # <<>> /\ AllFailed(ZfsAttempts(who)))
                => (Len(ZfsAttempts(who)) = ZfsLoopMax(who) /\ ret = Ok(FALSE))

C1_Witness ==
    /\ BatchReturned /\ silent
    /\ Len(BatchInvokes) = MAX_RETRIES
    /\ AllFailed(BatchInvokes)
    /\ Caught(ret)

C1_WitnessRun ==
    RunReturned /\ Len(RunAttempts) = RUN_MAX_RETRIES /\ AllFailed(RunAttempts) /\ Caught(ret)

C1_WitnessZfs ==
    ZfsReturned /\ Len(ZfsAttempts("zfs-utils")) = ZFS_PKG_MAX_RETRIES
                /\ AllFailed(ZfsAttempts("zfs-utils")) /\ ret = Ok(FALSE)

Waits(log) == Select(log, "wait")
WaitsOf(log, who) == SelectWho(log, "wait", who)
BackoffDelay(base, mult, k) == base * Pow(mult, k - 1)

\* C2: in every logical retried call the wait before attempt k+1 is
\* base_delay * multiplier^(k-1), counted from that call's own first attempt:
\* for each batch of Pacman.strap (base 5, multiplier 2) and for each package of
\* the archzfs fallback loop of install_zfs_packages.
C2_BackoffPerCall ==
    /\ \A k \in DOMAIN Waits(batchLog) :
          Waits(batchLog)[k].d = BackoffDelay(RETRY_DELAY, 2, k)
    /\ \A i \in DOMAIN ZFS_PACKAGES :
          \A k \in DOMAIN WaitsOf(zfsLog, ZFS_PACKAGES[i]) :
             WaitsOf(zfsLog, ZFS_PACKAGES[i])[k].d = BackoffDelay(ZFS_PKG_RETRY_DELAY, 2, k)

\* the error texts that contain 'failed to synchronize' or 'failed retrieving
\* file' once lowered, and the first attempt of run failing with another one
AcceptedErrors == {"E_SYNC", "E_RETR"}
FirstRejected ==
    /\ RunAttempts # <<>>
    /\ Failed(RunAttempts[1])
    /\ RunAttempts[1].res \notin AcceptedErrors

C4_CorrectiveFailureAbsorbed ==
    /\ \A i \in DOMAIN runLog :
          runLog[i].ev = "refresh"
             => IF i < Len(runLog)
                THEN runLog[i + 1].ev = "attempt"
                ELSE pc = "run_loop" /\ runAttempt < RUN_MAX_RETRIES
    /\ \A i \in DOMAIN batchLog :
          batchLog[i].ev = "corrective"
             => IF i < Len(batchLog)
                THEN batchLog[i + 1].ev = "try"
                ELSE pc = "batch_loop" /\ batchAttempt < max_retries
    /\ (RunReturned /\ Caught(ret))
          => /\ runLog[Len(runLog)].ev = "attempt"
             /\ ret.exc = SysCallError(runLog[Len(runLog)].res)
    /\ (BatchReturned /\ Caught(ret))
          => /\ ret.exc.cls = "RequirementError"
             /\ ret.exc.bail = "Package installation failed"
             /\ ret.exc.text = BatchInvokes[Len(BatchInvokes)].res

C4_Witness ==
    /\ RunReturned /\ Caught(ret)
    /\ \E i \in DOMAIN runLog :
          runLog[i].ev = "refresh" /\ Failed(runLog[i]) /\ runLog[i].res # ret.exc.text

\* C5: when the retries are exhausted the error handed to the caller is the one
\* of the last attempt, and neither a wait nor a corrective action follows that
\* last attempt (Pacman.run and _install_package_batch).
C5_LastErrorReported ==
    /\ (RunReturned /\ Caught(ret))
          => /\ Len(RunAttempts) = RUN_MAX_RETRIES
             /\ runLog[Len(runLog)] = Ev("attempt", "run", ret.exc.text, 0)
             /\ ret.exc.cls = "SysCallError"
    /\ (BatchReturned /\ Caught(ret))
          => /\ Len(Select(batchLog, "try")) = max_retries
             /\ batchLog[Len(batchLog)].ev \in {"invoke", "prompt"}
             /\ Len(Waits(batchLog)) = max_retries - 1
             /\ Len(Select(batchLog, "corrective")) = max_retries - 1
             /\ ret.exc = RequirementError("Package installation failed",
                                           SysCallError(BatchInvokes[Len(BatchInvokes)].res))

C5_Witness ==
    /\ RunReturned /\ Caught(ret)
    /\ RunAttempts[1].res # RunAttempts[RUN_MAX_RETRIES].res
    /\ RunAttempts[RUN_MAX_RETRIES - 1].res # RunAttempts[RUN_MAX_RETRIES].res

C5_WitnessBatch ==
    /\ BatchReturned /\ Caught(ret)
    /\ BatchInvokes[1].res # BatchInvokes[Len(BatchInvokes)].res

C6_WitnessSilent ==
    max_retries = 1 /\ BatchReturned /\ Caught(ret) /\ silent /\ Len(BatchInvokes) = 1

\* C7: Pacman.run never starts the first attempt of its command while the lock
\* is observed present: the latest poll before the first invocation found the
\* lock absent, and when the wait runs out the command is never invoked and the
\* process ends with status 1.
C7_FirstAttemptAfterLockAbsent ==
    /\ (pc = "run_loop" /\ runAttempt = 0) => (lastPoll = "absent" /\ ~lockTimedOut)
    /\ (RunAttempts # <<>>) => lastPoll = "absent"
    /\ lockTimedOut => (RunAttempts = <<>> /\ pc \notin {"run_loop", "run_backoff", "run_refresh"})
    /\ (lockTimedOut /\ pc = "exited") => exit_code = 1

C7_Witness ==
    pc = "run_loop" /\ runAttempt = 0 /\ lockWarned /\ lastPoll = "absent"

\* C8: the lock wait fails at the first poll at which the elapsed time exceeds
\* the timeout, never later than timeout + poll_interval; with a timeout of 1 s
\* and a poll interval of 100 ms that is after at least 10 polls and at most
\* 1.1 s.
C8_LockTimeoutBound ==
    /\ (pc \in {"run_while", "run_sleep"}) => lockElapsed <= lockSpec.timeout
    /\ lockTimedOut
          => /\ lockElapsed > lockSpec.timeout
             /\ lockElapsed - lockSpec.poll_interval <= lockSpec.timeout
             /\ lockElapsed = (lockPolls - 1) * lockSpec.poll_interval
             /\ lastPoll = "present"
             /\ (lockSpec = [poll_interval |-> 100, timeout |-> 1000])
                   => (lockPolls >= 10 /\ lockElapsed <= 1100)

C8_Witness ==
    /\ lockTimedOut
    /\ lockSpec = [poll_interval |-> 100, timeout |-> 1000]
    /\ lockElapsed = 1100

\* C9: a lock timeout in Pacman.run is fatal: SystemExit(1) passes every
\* enclosing handler (Pacman.ask, Pacman.sync, _fetch_arch_db, the retry loops)
\* unchanged, nothing is retried or asked, and the process ends with status 1.
ReturnSites ==
    {"ask_ret", "sync_ret", "strap_sync_ret", "batch_sync_ret", "fetch_ret", "top_ret"}

C9_LockTimeoutFatal ==
    lockTimedOut
       => \/ pc = "exited" /\ exit_code = 1
          \/ pc \in ReturnSites /\ ret = Raise(SystemExit(1))

C9_Witness ==
    pc = "exited" /\ lockTimedOut /\ exit_code = 1 /\ askFunc = "run" /\ ~silent

C9_WitnessFetch ==
    pc = "exited" /\ lockTimedOut /\ exit_code = 1 /\ topCall = "fetch"

RECURSIVE Flatten(_)
Flatten(ss) == IF ss = <<>> THEN <<>> ELSE Head(ss) \o Flatten(Tail(ss))

StrapReturnedOk == pc = "top_ret" /\ topCall = "strap" /\ ret.kind = "ok"

\* C10: Pacman.strap passes to _install_package_batch, in order, the chunks of
\* indices [i*b, min((i+1)*b, n)) of the list the plugins left: their
\* concatenation is that list, every chunk but the last has b items, none is
\* empty, an empty list gives no batch; n = 12 and b = 5 give [0,5), [5,10),
\* [10,12).
C10_ChunkBoundaries ==
    LET n == Len(strapPkgs)
        b == batch_size
    IN  /\ \A j \in DOMAIN batches :
              /\ batches[j] = [k \in 1 .. (Min(j * b, n) - (j - 1) * b)
                                  |-> strapPkgs[(j - 1) * b + k]]
              /\ Len(batches[j]) >= 1
              /\ (j < Len(batches)) => Len(batches[j]) = b
        /\ StrapReturnedOk
              => /\ Flatten(batches) = strapPkgs
                 /\ (Len(batches) - 1) * b < n \/ n = 0
                 /\ (n = 0) => batches = <<>>
                 /\ (n = 12 /\ b = 5)
                       => batches = << SubSeq(strapPkgs, 1, 5), SubSeq(strapPkgs, 6, 10),
                                       SubSeq(strapPkgs, 11, 12) >>

C10_Witness ==
    StrapReturnedOk /\ Len(strapPkgs) = 12 /\ batch_size = 5 /\ Len(batches) = 3

InBatch == pc \in {"batch_loop", "batch_ret", "batch_backoff", "batch_sync_ret", "strap_batch_ret"}
           \/ (pc \in {"ask_try", "ask_except", "ask_answer", "sync_enter"} /\ Head(stack) \in {"batch_ret", "batch_sync_ret"})
StrapFailedInBatch == pc = "top_ret" /\ topCall = "strap" /\ Caught(ret) /\ batches # <<>>

\* C11: in Pacman.strap chunk i+1 is started only after chunk i has returned
\* without an exception, and once a chunk has exhausted its retries no further
\* chunk is started: the exception leaves strap and ends the process.
C11_ChunksStrictlyInOrder ==
    /\ [](InBatch => (batches # <<>> /\ strapI = (Len(batches) - 1) * batch_size))
    /\ [][(batches' # batches /\ batches' # <<>>)
             => /\ pc = "strap_loop" /\ ret.kind # "raise"
                /\ Len(batches') = Len(batches) + 1
                /\ strapI = Len(batches) * batch_size]_vars
    /\ [][(strapI' > strapI)
             => (pc = "strap_batch_ret" /\ ret.kind = "ok" /\ strapI' = strapI + batch_size)]_vars
    /\ [][(pc = "strap_batch_ret" /\ ret.kind = "raise")
             => (pc' = "top_ret" /\ ret' = ret /\ batches' = batches)]_vars
    /\ [][(pc = "top_ret" /\ ret.kind = "raise")
             => (pc' = "exited" /\ batches' = batches)]_vars

C11_Witness ==
    /\ pc = "exited" /\ topCall = "strap" /\ Caught(ret)
    /\ Len(batches) = 2
    /\ Len(strapPkgs) > 2 * batch_size

ListAfter(reg, input) ==
    LET F[k \in 0 .. Len(reg)] ==
            IF k = 0 THEN input
            ELSE CASE reg[k].kind = "add" -> Append(F[k - 1], 0)
                   [] reg[k].kind = "drop_last" /\ Len(F[k - 1]) > 1 ->
                         [j \in 1 .. (Len(F[k - 1]) - 1) |-> F[k - 1][j]]
                   [] OTHER -> F[k - 1]
    IN  F

\* the registered plugins that are called: those with on_pacstrap, up to the
\* first one that raises
Called(reg) ==
    {k \in DOMAIN reg :
        /\ reg[k].kind # "no_attr"
        /\ \A j \in 1 .. (k - 1) : reg[j].kind # "raise"}

HooksFolded(reg, input, pkgs, calls) ==
    /\ Len(calls) = Cardinality(Called(reg))
    /\ \A c \in DOMAIN calls :
          \E k \in Called(reg) :
             /\ Cardinality({j \in Called(reg) : j <= k}) = c
             /\ calls[c] = [name |-> reg[k].name, arg |-> ListAfter(reg, input)[k - 1]]
    /\ (\A k \in DOMAIN reg : reg[k].kind # "raise") => pkgs = ListAfter(reg, input)[Len(reg)]
    /\ (\A k \in DOMAIN reg : reg[k].kind \in {"no_attr", "none", "empty"}) => pkgs = input

\* C13: Pacman.strap folds the registered plugins over the package list in
\* registration order: each plugin that has on_pacstrap receives the list the
\* previous one left, a non-empty result replaces the list, an empty or None
\* result leaves it as it is; with no plugin, or none that has on_pacstrap, the
\* list that is batched is the input list.
C13_HooksFoldInOrder ==
    /\ [][(pc = "strap_sync_ret" /\ ret.kind # "raise")
             => /\ HooksFolded(plugins, strapInput', strapPkgs', hookCalls')
                /\ plugins' = plugins
                /\ (pc' = "strap_loop") <=> (\A k \in DOMAIN plugins : plugins[k].kind # "raise")]_vars
    /\ [](StrapReturnedOk
             => /\ HooksFolded(plugins, strapInput, strapPkgs, hookCalls)
                /\ Flatten(batches) = ListAfter(plugins, strapInput)[Len(plugins)])

C13_Witness ==
    /\ StrapReturnedOk
    /\ Len(plugins) = 2
    /\ plugins[1].kind = "drop_last" /\ plugins[2].kind = "add"
    /\ Len(strapInput) = 3
    /\ Flatten(batches) = <<strapInput[1], strapInput[2], 0>>
    /\ hookCalls[2].arg = <<strapInput[1], strapInput[2]>>

C13_WitnessEmpty ==
    /\ StrapReturnedOk
    /\ Len(plugins) = 2 /\ plugins[1].kind = "empty" /\ plugins[2].kind = "none"
    /\ strapInput # <<>> /\ Flatten(batches) = strapInput

SetupReturned == pc = "top_ret" /\ topCall = "setup"
StepEvents == Select(setupLog, "step")
ResultEvents == Select(setupLog, "result")
ErrorEvents == Select(setupLog, "error")
DeclaredOrder == <<"create_pool", "create_datasets", "setup_encryption", "create_swap",
                   "mount_datasets", "configure_boot", "install_zfs_packages",
                   "configure_bootloader">>

\* C14: setup_zfs_system runs its steps strictly in declaration order; when a
\* step fails no later step is invoked, the run returns False, and the step
\* reported as failed is the first (and only) step that failed.
C14_StepsInOrderAbortOnFailure ==
    /\ Len(StepEvents) <= Len(DeclaredOrder)
    /\ \A i \in DOMAIN StepEvents : StepEvents[i].who = DeclaredOrder[i]
    /\ \A i \in DOMAIN setupLog :
          /\ (setupLog[i].ev = "step" /\ setupLog[i].who # DeclaredOrder[1])
                => (i > 1 /\ setupLog[i - 1].ev = "result" /\ setupLog[i - 1].res = "True")
          /\ (setupLog[i].ev = "result" /\ setupLog[i].res = "False")
                => /\ Len(setupLog) = i + 1
                   /\ setupLog[i + 1] = Ev("error", setupLog[i].who, "", 0)
                   /\ setupLog[i].who = StepEvents[Len(StepEvents)].who
                   /\ pc \in {"top_ret", "script", "exited"}
    /\ (SetupReturned /\ \E i \in DOMAIN ResultEvents : ResultEvents[i].res = "False")
          => /\ ret = Ok(FALSE)
             /\ Len(ErrorEvents) = 1
             /\ \A i \in DOMAIN ResultEvents :
                   (ResultEvents[i].res = "False") <=> (i = Len(ResultEvents))

C14_Witness ==
    /\ SetupReturned /\ ret = Ok(FALSE)
    /\ Len(StepEvents) = 4
    /\ setupLog[Len(setupLog)] = Ev("error", "create_swap", "", 0)

OptionalDatasets == {"zfs create home", "zfs create var", "zfs create var/lib", "zfs create var/log"}
CommandsRun == {setupLog[i].who : i \in {j \in DOMAIN setupLog : setupLog[j].ev = "cmd"}}
OptionalDatasetFailed ==
    \E i \in DOMAIN setupLog :
        setupLog[i].ev = "cmd" /\ setupLog[i].who \in OptionalDatasets /\ Failed(setupLog[i])

\* C15: when the creation of one optional dataset (home, var, var/lib, var/log)
\* fails, the remaining datasets and all later steps of setup_zfs_system still
\* run and the run does not end as aborted (it returns True).
C15_OptionalDatasetTolerated ==
    (SetupReturned /\ OptionalDatasetFailed)
       => /\ OptionalDatasets \subseteq CommandsRun
          /\ Len(StepEvents) = Len(DeclaredOrder)
          /\ ret = Ok(TRUE)

TimesInvoked(name) == Cardinality({i \in DOMAIN StepEvents : StepEvents[i].who = name})
AllStepsSucceeded ==
    /\ \A k \in DOMAIN DeclaredOrder : TimesInvoked(DeclaredOrder[k]) = 1
    /\ Len(ResultEvents) = Len(DeclaredOrder)
    /\ \A i \in DOMAIN ResultEvents : ResultEvents[i].res = "True"

\* C16: setup_zfs_system returns True if and only if all eight steps were
\* invoked, each exactly once, and each returned success; it never returns True
\* after a step returned failure, and a command failure inside a step never
\* leaves the step or the pipeline as an exception.
C16_TrueIffAllStepsSucceeded ==
    /\ (pc = "setup_ret") => ret.kind = "ok"
    /\ SetupReturned
          => /\ ret.kind = "ok"
             /\ ret.val <=> AllStepsSucceeded
             /\ (\E i \in DOMAIN ResultEvents : ResultEvents[i].res = "False") => ~ret.val
    /\ \A k \in DOMAIN DeclaredOrder : TimesInvoked(DeclaredOrder[k]) <= 1

C16_Witness ==
    /\ SetupReturned /\ ret = Ok(TRUE)
    /\ AllStepsSucceeded
    /\ \E i \in DOMAIN zfsLog : zfsLog[i].ev \in {"cmd", "attempt"} /\ Failed(zfsLog[i])

\* C17: during one call of _install_package_batch the operator is asked only
\* once the automatic attempts are used up: no prompt comes between two
\* automatic attempts, and an answer of 'no' is never followed by a further
\* automatic attempt of the same batch.
C17_PromptOnlyAfterExhaustion ==
    LET log == batchLog \o askLog IN
    \A i \in DOMAIN log :
       (log[i].ev = "prompt")
          => /\ \A j \in DOMAIN log : (j > i) => log[j].ev # "try"
             /\ (log[i].res = "bail") => (pc # "batch_backoff" /\ pc # "batch_loop")

IsSet(key) == key \in storage.present

\* C18: constructing a ZFSManager never fails because a key is absent from the
\* store: pool name, compression, boot environment, encryption flag and
\* encryption password take rpool, lz4, default, False and '' when their key
\* is absent, and the stored value when it is present.
C18_AbsentKeysTakeDefaults ==
    /\ ret.kind # "raise"
    /\ (pc = "zfs_script")
          => /\ zfsCfg.pool_name =
                   (IF IsSet("zfs_pool_name") THEN storage.val.zfs_pool_name ELSE "rpool")
             /\ zfsCfg.compression =
                   (IF IsSet("zfs_compression") THEN storage.val.zfs_compression ELSE "lz4")
             /\ zfsCfg.boot_environment =
                   (IF IsSet("zfs_boot_environment") THEN storage.val.zfs_boot_environment
                    ELSE "default")
             /\ zfsCfg.enable_encryption =
                   (IF IsSet("zfs_encryption") THEN storage.val.zfs_encryption ELSE FALSE)
             /\ zfsCfg.encryption_password =
                   (IF IsSet("zfs_encryption_password") THEN storage.val.zfs_encryption_password
                    ELSE "")

C18_Witness ==
    /\ pc = "zfs_script"
    /\ storage.present = {"zfs_compression", "zfs_encryption"}
    /\ zfsCfg = [pool_name |-> "rpool", compression |-> "zstd", boot_environment |-> "default",
                 enable_encryption |-> TRUE, encryption_password |-> ""]

\* C19 (as claimed): between two attempts of Pacman.run and of
\* _install_package_batch the order is failure, corrective action, wait, next
\* attempt: the corrective action comes right after the failure and the wait
\* right after the corrective action.
C19_CorrectiveThenWait ==
    /\ \A i \in DOMAIN runLog :
          (runLog[i].ev = "refresh")
             => /\ i > 1 /\ runLog[i - 1].ev = "attempt"
                /\ (i < Len(runLog)) => runLog[i + 1].ev = "wait"
    /\ \A i \in DOMAIN batchLog :
          (batchLog[i].ev = "corrective")
             => /\ i > 1 /\ batchLog[i - 1].ev \in {"invoke", "prompt"}
                /\ (i < Len(batchLog)) => batchLog[i + 1].ev = "wait"

\* C19 (amended): between two attempts the order is failure, wait, corrective
\* action, next attempt: the backoff wait comes right after the failed attempt,
\* the corrective action (in Pacman.run only after an error the classifier
\* accepts) right after the wait, and the next attempt right after that.
C19_WaitThenCorrective ==
    /\ \A i \in DOMAIN runLog :
          /\ (runLog[i].ev = "wait")
                => /\ i > 1 /\ runLog[i - 1].ev = "attempt" /\ Failed(runLog[i - 1])
                   /\ (i < Len(runLog)) => runLog[i + 1].ev \in {"refresh", "attempt"}
          /\ (runLog[i].ev = "refresh")
                => /\ i > 2 /\ runLog[i - 1].ev = "wait"
                   /\ (i < Len(runLog)) => runLog[i + 1].ev = "attempt"
          /\ (runLog[i].ev = "attempt" /\ runLog[i].res \in AcceptedErrors /\ i + 3 <= Len(runLog))
                => /\ runLog[i + 1].ev = "wait"
                   /\ runLog[i + 2].ev = "refresh"
                   /\ runLog[i + 3].ev = "attempt"
    /\ \A i \in DOMAIN batchLog :
          /\ (batchLog[i].ev = "wait")
                => /\ i > 1 /\ batchLog[i - 1].ev \in {"invoke", "prompt"}
                   /\ batchLog[i - 1].res \notin {"ok", "retry"}
                   /\ (i < Len(batchLog)) => batchLog[i + 1].ev = "corrective"
          /\ (batchLog[i].ev = "corrective")
                => /\ i > 2 /\ batchLog[i - 1].ev = "wait"
                   /\ (i < Len(batchLog)) => batchLog[i + 1].ev = "try"

C19_Witness ==
    /\ \E i \in DOMAIN runLog :
          /\ i + 3 <= Len(runLog)
          /\ runLog[i].ev = "attempt" /\ runLog[i].res = "E_RETR"
          /\ runLog[i + 1].ev = "wait" /\ runLog[i + 2].ev = "refresh"
          /\ runLog[i + 3].ev = "attempt"

C19_WitnessBatch ==
    \E i \in DOMAIN batchLog :
        /\ i + 2 <= Len(batchLog)
        /\ batchLog[i].ev = "wait" /\ batchLog[i + 1].ev = "corrective"
        /\ batchLog[i + 2].ev = "try"

\* C20: before each retry of a failed batch in _install_package_batch called
\* from Pacman.strap, the database refresh command (pacman -Syy) is actually
\* executed.
C20_RefreshRunsBeforeRetry ==
    \A i \in DOMAIN batchLog :
       (batchLog[i].ev = "try" /\ i > 1)
          => /\ batchLog[i - 1].ev = "corrective"
             /\ batchLog[i - 1].res # "noop"

\* the plugins of the registry that have on_pacstrap
HookNames == {plugins[k].name : k \in {j \in DOMAIN plugins : plugins[j].kind # "no_attr"}}
StrapBatching == pc = "strap_loop" \/ InBatch

\* C21: in one call of Pacman.strap the on_pacstrap hooks are invoked in one
\* place only: after self.sync() has returned (the database is synced) and
\* before the first batch is cut; the first hook receives the whole list the
\* caller passed, no hook is invoked twice, and once strap is batching every
\* plugin that has on_pacstrap has been invoked once; neither a later batch nor
\* the retry of a batch invokes a hook.
C21_HooksOnceBeforeBatches ==
    /\ [][(hookCalls' # hookCalls /\ hookCalls' # <<>>)
             => /\ pc = "strap_sync_ret" /\ ret.kind = "ok" /\ synced
                /\ hookCalls = <<>> /\ batches = <<>> /\ batches' = <<>>]_vars
    /\ [][StrapBatching => hookCalls' = hookCalls]_vars
    /\ [](/\ hookCalls # <<>> => (synced /\ hookCalls[1].arg = strapInput)
          /\ \A c, d \in DOMAIN hookCalls : hookCalls[c].name = hookCalls[d].name => c = d
          /\ StrapBatching
                => /\ {hookCalls[c].name : c \in DOMAIN hookCalls} = HookNames
                   /\ Len(hookCalls) = Cardinality(HookNames))

\* the second batch is being retried; both hooks were invoked once, the first
\* one with the twelve packages of the caller
C21_Witness ==
    /\ pc = "batch_loop" /\ batchAttempt >= 1
    /\ Len(batches) = 2
    /\ Len(plugins) = 2 /\ Len(hookCalls) = 2
    /\ Len(strapInput) > batch_size
    /\ hookCalls[1].arg = strapInput
    /\ synced

\* the plugin whose on_pacstrap raises first, 0 when none does
FirstRaising ==
    IF \E k \in DOMAIN plugins : plugins[k].kind = "raise"
    THEN CHOOSE k \in DOMAIN plugins :
            /\ plugins[k].kind = "raise"
            /\ \A j \in 1 .. (k - 1) : plugins[j].kind # "raise"
    ELSE 0
HookFailure == ret.kind = "raise" /\ ret.exc.cls = "HookError"

\* C22: when an on_pacstrap hook raises, the exception leaves Pacman.strap at
\* once and ends the process with status 1: the hook that raised is the last
\* one invoked and was invoked once, the plugins registered after it are not
\* invoked, and no batch is cut and no pacstrap command is run.
C22_HookErrorPropagates ==
    /\ [][(pc = "strap_sync_ret" /\ ret.kind = "ok" /\ FirstRaising # 0)
             => /\ pc' = "top_ret" /\ ret' = Raise(HookError)
                /\ hookCalls'[Len(hookCalls')].name = plugins[FirstRaising].name
                /\ faults' = faults]_vars
    /\ [][(pc = "top_ret" /\ HookFailure)
             => (pc' = "exited" /\ exit_code' = 1 /\ hookCalls' = hookCalls /\ batches' = batches)]_vars
    /\ [](HookFailure
             => /\ FirstRaising # 0
                /\ batches = <<>> /\ batchLog = <<>> /\ askLog = <<>>
                /\ Len(hookCalls) = Cardinality({k \in 1 .. FirstRaising : plugins[k].kind # "no_attr"})
                /\ \A c \in DOMAIN hookCalls :
                      \E k \in 1 .. FirstRaising :
                         /\ hookCalls[c].name = plugins[k].name
                         /\ (k = FirstRaising) <=> (c = Len(hookCalls)))

\* the first of two hooks raised on a non-empty list: the process has ended
\* with status 1, the second hook was never called and nothing was installed
C22_Witness ==
    /\ pc = "exited" /\ exit_code = 1 /\ HookFailure
    /\ Len(plugins) = 2 /\ plugins[1].kind = "raise" /\ plugins[2].kind = "add"
    /\ Len(hookCalls) = 1 /\ strapInput # <<>> /\ batches = <<>>

\* the second hook raised after the first had changed the list
C22_WitnessSecond ==
    /\ pc = "top_ret" /\ HookFailure
    /\ Len(plugins) = 2 /\ plugins[1].kind = "add" /\ plugins[2].kind = "raise"
    /\ Len(hookCalls) = 2 /\ batches = <<>>

\* C23: the plugin registry is append-only: a registration leaves every entry
\* that was in the registry where it was and as it was (so that Pacman.strap
\* still applies it, in the order of registration), and adds one entry.
C23_RegistryAppendOnly ==
    [][plugins' # plugins
          => /\ Len(plugins') = Len(plugins) + 1
             /\ \A i \in DOMAIN plugins : plugins'[i] = plugins[i]]_vars

ZfsFailedAt(i) == zfsLog[i].ev \in {"cmd", "attempt"} /\ zfsLog[i].res # "ok"
ZfsFollowedBy(i, ev, who) ==
    i < Len(zfsLog) /\ zfsLog[i + 1].ev = ev /\ zfsLog[i + 1].who = who

\* C24: when install_zfs_packages has returned, the log of its commands shows
\* that the install of linux-headers was followed by the install from the
\* official repositories, pacman-key -r (failed) or --lsign-key by the update
\* of the database, and the update by the first attempt on zfs-dkms, whether
\* they failed or not; and that a package or the initramfs rebuild that failed
\* on all its 3 attempts is the last thing the call did and the call returned
\* False (no later package, no mkinitcpio.conf, no mkinitcpio -P).
C24_BestEffortAndFatalSubSteps ==
    ZfsReturned =>
       /\ zfsLog[1].who = "linux-headers" /\ ZfsFollowedBy(1, "cmd", "official")
       /\ \A i \in DOMAIN zfsLog :
             /\ (zfsLog[i].who = "key-recv" /\ ~ZfsFailedAt(i))
                    => ZfsFollowedBy(i, "cmd", "key-lsign")
             /\ ((zfsLog[i].who = "key-recv" /\ ZfsFailedAt(i)) \/ zfsLog[i].who = "key-lsign")
                    => ZfsFollowedBy(i, "cmd", "update")
             /\ zfsLog[i].who = "update" => ZfsFollowedBy(i, "attempt", ZFS_PACKAGES[1])
       /\ \A who \in ZfsLoops :
             (Len(ZfsAttempts(who)) = ZfsLoopMax(who) /\ AllFailed(ZfsAttempts(who)))
                => /\ ret = Ok(FALSE)
                   /\ zfsLog[Len(zfsLog)] = Ev("attempt", who, zfsLog[Len(zfsLog)].res, 0)
       /\ (ret = Ok(TRUE)) => ~AllFailed(ZfsAttempts("mkinitcpio"))

\* linux-headers, pacman-key -r and the update all failed, and the call went on
\* to install both packages, rebuilt the initramfs and returned True
C24_Witness ==
    /\ ZfsReturned /\ ret = Ok(TRUE)
    /\ ZfsFailedAt(1)
    /\ \E i \in DOMAIN zfsLog : zfsLog[i].who = "key-recv" /\ ZfsFailedAt(i)
    /\ \E i \in DOMAIN zfsLog : zfsLog[i].who = "update" /\ ZfsFailedAt(i)
    /\ \A k \in DOMAIN ZFS_PACKAGES : Len(ZfsAttempts(ZFS_PACKAGES[k])) = 1

\* zfs-dkms failed three times: False, and zfs-utils was never attempted
C24_WitnessFatal ==
    /\ ZfsReturned /\ ret = Ok(FALSE)
    /\ Len(ZfsAttempts(ZFS_PACKAGES[1])) = ZFS_PKG_MAX_RETRIES
    /\ AllFailed(ZfsAttempts(ZFS_PACKAGES[1]))
    /\ ZfsAttempts(ZFS_PACKAGES[2]) = <<>>
    /\ ZfsAttempts("mkinitcpio") = <<>>

\* the third mkinitcpio -P failed: False
C24_WitnessInitramfs ==
    /\ ZfsReturned /\ ret = Ok(FALSE)
    /\ Len(ZfsAttempts("mkinitcpio")) = ZFS_INIT_MAX_RETRIES
    /\ AllFailed(ZfsAttempts("mkinitcpio"))

\* the positions inside Pacman.run and of its return into Pacman.ask
RunPositions ==
    {"run_check", "run_while", "run_sleep", "run_loop", "run_backoff", "run_refresh", "ask_ret"}
SyncBail == "Could not sync mirrors"

\* C25: Pacman.synced changes only from False to True, in the step in which
\* sync gets a normal return from ask, whose last invocation of run ended with a
\* pacman -Syy that succeeded; while it is True, sync returns at once without
\* running a command (control is never inside Pacman.run); when the command
\* of sync has failed and the operator does not retry (or the mode is silent),
\* sync raises RequirementError 'Could not sync mirrors: ...' and the flag
\* stays False.
C25_SyncIdempotent ==
    /\ [][synced' # synced
             => /\ ~synced /\ synced'
                /\ pc = "sync_ret" /\ ret.kind = "ok"
                /\ askLog # <<>> /\ askLog[Len(askLog)] = Ev("invoke", "run", "ok", 0)]_vars
    /\ [][(pc = "ask_ret" /\ ret.kind = "ok")
             => (runLog # <<>> /\ runLog[Len(runLog)] = Ev("attempt", "run", "ok", 0))]_vars
    /\ [][(pc = "sync_enter" /\ synced)
             => /\ pc' = Head(stack) /\ ret' = Ok(TRUE)
                /\ faults' = faults /\ runLog' = runLog /\ synced']_vars
    /\ [](synced => (pc \notin RunPositions /\ ~(pc = "ask_try" /\ askFunc = "run")))
    /\ [][(pc \in {"ask_except", "ask_answer"} /\ askFunc = "run"
               /\ pc' \notin {"ask_try", "ask_answer"})
             => (pc' = "sync_ret" /\ ret' = Raise(RequirementError(SyncBail, askErr)))]_vars
    /\ [][(pc = "sync_ret" /\ ret.kind = "raise")
             => /\ ~synced' /\ ret' = ret
                /\ (lockTimedOut \/ ret.exc.cls = "RequirementError")]_vars

\* the retry of a batch has called sync on the synced instance: it returned
\* without a command
C25_Witness ==
    /\ pc = "batch_sync_ret" /\ synced /\ ret = Ok(TRUE)
    /\ runLog = <<>> /\ askLog = <<>>

\* the command of sync failed and was not retried: RequirementError, not synced
C25_WitnessFailed ==
    /\ pc = "sync_ret" /\ ~synced /\ ~silent
    /\ ret.kind = "raise" /\ ret.exc.cls = "RequirementError" /\ ret.exc.bail = SyncBail
    /\ askLog[Len(askLog)] = Ev("prompt", "run", "bail", 0)

AskReturned == pc \in {"batch_ret", "sync_ret"}
AskInvokes == Select(askLog, "invoke")
AskPrompts == Select(askLog, "prompt")
\* the answers that are 'y' or empty once lower-cased and stripped
YesOrEmpty == {"y", "Y", " y ", "", " "}

\* C26: in silent mode Pacman.ask never calls input(): it invokes the function
\* once and raises RequirementError when that invocation failed; in non-silent
\* mode it invokes the function again exactly when the answer (lower-cased,
\* stripped) is 'y' or empty and raises RequirementError on any other answer,
\* so that it has invoked the function once more than it was told to retry; it
\* returns normally only when its last invocation succeeded.
C26_AskRetriesOnOperatorYes ==
    /\ [](silent => (pc # "ask_answer" /\ AskPrompts = <<>> /\ Len(AskInvokes) <= 1))
    /\ [][(pc = "ask_except" /\ silent)
             => (pc' = Head(stack) /\ ret' = Raise(RequirementError(BailMessage(askFunc), askErr)))]_vars
    /\ [][(pc = "ask_except" /\ ~silent) => (pc' = "ask_answer" /\ askAnswer' \in Answers)]_vars
    /\ [][pc = "ask_answer"
             => IF askAnswer \in YesOrEmpty
                THEN pc' = "ask_try" /\ stack' = stack /\ ret' = ret
                ELSE /\ pc' = Head(stack)
                     /\ ret' = Raise(RequirementError(BailMessage(askFunc), askErr))]_vars
    /\ [](AskReturned
             => /\ Len(AskInvokes) =
                      1 + Len(SelectSeq(AskPrompts, LAMBDA e : e.res = "retry"))
                /\ (ret.kind = "ok") <=> (askLog[Len(askLog)].ev = "invoke"
                                             /\ askLog[Len(askLog)].res = "ok")
                /\ ret.kind = "raise"
                      => (lockTimedOut \/ ret.exc.cls = "RequirementError"))

\* the operator answered with an empty line after a failed pacstrap, the
\* second invocation succeeded and ask returned
C26_Witness ==
    /\ pc = "batch_ret" /\ ~silent /\ ret.kind = "ok"
    /\ Len(AskInvokes) = 2 /\ Len(AskPrompts) = 1

\* the answer 'yes' is being tested: it will end the call with RequirementError
C26_WitnessYes ==
    pc = "ask_answer" /\ askAnswer = "yes"

\* silent: one failed invocation, RequirementError, no prompt
C26_WitnessSilent ==
    /\ pc = "batch_ret" /\ silent /\ Caught(ret)
    /\ Len(AskInvokes) = 1 /\ AskPrompts = <<>>

\* ceil(n / d)
CeilDiv(n, d) == (n + d - 1) \div d
StrapReturned == pc = "top_ret" /\ topCall = "strap"

EncryptionStepAt(i) ==
    /\ setupLog[i] = Ev("step", "setup_encryption", "", 2)
    /\ i < Len(setupLog)

C28_ConfigIsSnapshot ==
    /\ [][pc = "zfs_import" => zfsCfg' = ZfsManagerNew(storage)]_vars
    /\ [][pc # "zfs_import" => zfsCfg' = zfsCfg]_vars
    /\ [](\A i \in 1 .. Len(setupLog) :
             EncryptionStepAt(i) =>
                (setupLog[i + 1].ev = "cmd" <=> ~EncryptionSkipped(zfsCfg)))

\* the store was changed in the menu after construction so that it disagrees
\* with the instance about encryption, and setup_encryption has run
C28_Witness ==
    /\ \E i \in 1 .. Len(setupLog) : EncryptionStepAt(i)
    /\ EncryptionSkipped(zfsCfg) # EncryptionSkipped(ZfsManagerNew(storage))
    /\ zfsCfg.pool_name # StorageGet(storage, "zfs_pool_name", "rpool")

(***************************************************************************)
(* C29: in ZFSMenu a stored boot strategy is 'zfs_boot' or                 *)
(* 'separate_boot', and show() on a store without pool name stores one;    *)
(* in manual mode, when a /boot partition exists and the operator keeps    *)
(* the existing partitions, the strategy becomes 'separate_boot' and is    *)
(* marked as selected, the selection of the strategy is not shown and the  *)
(* recorded device modifications stay as they were.                        *)
(***************************************************************************)
MenuPcs == {"menu_loop", "menu_entered", "menu_confirm", "menu_confirmed",
            "boot_enter", "boot_warning", "boot_warned", "boot_select"}

KeptExistingBoot ==
    /\ pc = "boot_warned"
    /\ ~is_guided
    /\ has_existing_boot
    /\ dialog = [menu |-> "warning", selected |-> TRUE, value |-> "keep"]

C29_BootStrategyForced ==
    /\ [](bootStrategy \in BootStrategies \cup {"unset"})
    /\ [](pc \in MenuPcs /\ zfsCfg = ZfsManagerNew(EmptyStore)
             => bootStrategy \in BootStrategies)
    /\ [][KeptExistingBoot =>
             /\ bootStrategy' = "separate_boot"
             /\ bootSelected'
             /\ pc' = "menu_loop"
             /\ "strategy" \notin shown'
             /\ deviceMods' = deviceMods]_vars

\* the strategy was 'zfs_boot' by default, the operator kept a disk with a
\* /boot partition, and only the warning was shown
C29_Witness ==
    /\ pc = "menu_loop"
    /\ ~is_guided
    /\ has_existing_boot
    /\ bootStrategy = "separate_boot"
    /\ bootSelected
    /\ shown = {"warning"}
    /\ deviceMods = "unset"

(***************************************************************************)
(* C30: in ZFSMenu.show the stored encryption password changes only in the *)
(* step after a confirmation that was accepted and equals the non-empty    *)
(* password entered before it, and becomes that password; a skipped or     *)
(* empty entry and a skipped or different confirmation leave the store as  *)
(* it was; and the password dialog is opened only while encryption is      *)
(* enabled in the store.                                                   *)
(***************************************************************************)
StoredPassword(st) == StorageGet(st, "zfs_encryption_password", "")

C30_WitnessChanged ==
    /\ pc = "menu_loop"
    /\ StoredPassword(storage) = "pw2"
    /\ zfsCfg = ZfsManagerNew(ConfiguredStore)

====
